---------------------------- MODULE Spec2Model ----------------------------
(***************************************************************************)
(* Coral growth simulator: seeded generator, the two branch generators     *)
(* with their anastomosis pass, the scalar field rasterizer, the junction  *)
(* blender and the mesh build of the Coral component.                      *)
(*                                                                         *)
(* Numbers.  A 32-bit word is a pair <<hi, lo>> of 16-bit halves, so that  *)
(* every product stays inside the checker's integers.  An integer valued   *)
(* JavaScript number of up to 33 bits is the same pair with hi allowed to  *)
(* leave 0..65535 (negative for a negative number).                        *)
(***************************************************************************)
EXTENDS Integers, Sequences, FiniteSets, TLC

VARIABLES
    pSeed,      \* mulberry32: the seed the closure was created with
    pState,     \* mulberry32: the closure variable s, as a word
    pCount,     \* mulberry32: draws made so far
    pDraw,      \* mulberry32: numerator of the last draw (draw = pDraw / 2^32)
    gType,      \* generator called: 1 generateTreeClassic, 2 generateTreeKitaoka
    gParams,    \* the parameter record passed to it
    gCalls,     \* calls made so far in this process
    gBranches,  \* the list the latest call returned
    gFirst,     \* the list the first call returned
    gRng,       \* the PRNG state the latest call ended with (<<>> before any call)
    fBranches,  \* field: the branch list handed to the two fill functions
    fRes,       \* field: resolution, the number of voxels along an axis
    fSize,      \* field: mcSize, the width of the grid
    fInfluence, \* field: influence
    fBlob,      \* field: blobiness of the latest call of fillJunctionSpheres
    fField,     \* field: the Float32Array
    fPc,        \* field: 0 before fillDistanceField, 1 after it, 2 after fillJunctionSpheres
    mType,      \* store: config.coralType
    mParamsV1,  \* store: config.paramsV1
    mParamsV2,  \* store: config.paramsV2
    mResolution,\* store: config.mcResolution
    mSmoothing, \* store: config.smoothing, in thousandths
    mNoise,     \* store: config.noiseAmount, in thousandths
    mReset,     \* store: resetTrigger
    mTrigger,   \* store: meshTrigger
    mGeometry,  \* store: meshGeometry, <<>> for null
    mPending,   \* store: an action has been taken since the component last rendered
    mSolid,     \* Coral: solidGeo, <<>> for null
    mRan,       \* Coral: the resetTrigger the generation effect last ran with
    mDeps,      \* Coral: the dependencies the mesh build effect last ran with
    mBuild,     \* Coral: the constants of that run, <<>> when it returned early
    mRun,       \* Coral: the generator call whose result is the component's branch
                \* list (its type and parameters), <<>> for the initial empty list
    qPositions, \* post-processing: the welded mesh's position attribute
    qNormals,   \* post-processing: its normal attribute
    qIndex,     \* post-processing: its index buffer, by triangles
    qConfig,    \* post-processing: the settings and bounds the build reads
    qBefore,    \* post-processing: the positions before the latest step
    qStep,      \* post-processing: the latest step
    wGen,       \* control flow: 1 generateTreeClassic, 2 generateTreeKitaoka
    wLimit,     \* control flow: generations, or flowThreshold in millionths
    wDepth,     \* control flow: depth of the current call of recurse
    wFlow,      \* control flow: flow of the current call, in millionths
    wPc,        \* control flow: "recurse", "leaf", "outer", "inner", "done"
    wNodes,     \* control flow: nodes.length
    wI,         \* control flow: i of the outer loop
    wJ,         \* control flow: j of the inner loop
    wFused,     \* control flow: the set fused
    wExamined   \* control flow: the pairs <<i, j>> examined so far, in order

prngVars == <<pSeed, pState, pCount, pDraw>>
genVars == <<gType, gParams, gCalls, gBranches, gFirst, gRng>>
fieldVars == <<fBranches, fRes, fSize, fInfluence, fBlob, fField, fPc>>
storeVars == <<mType, mParamsV1, mParamsV2, mResolution, mSmoothing, mNoise, mReset, mTrigger, mGeometry, mPending>>
componentVars == <<mSolid, mRan, mDeps, mBuild, mRun>>
meshVars == <<storeVars, componentVars>>
postVars == <<qPositions, qNormals, qIndex, qConfig, qBefore, qStep>>
walkVars == <<wGen, wLimit, wDepth, wFlow, wPc, wNodes, wI, wJ, wFused, wExamined>>
vars == <<prngVars, genVars, fieldVars, meshVars, postVars, walkVars>>

\* ------------------------------------------------------------------------
\* 32-bit integer arithmetic of the JavaScript engine
\* ------------------------------------------------------------------------

H == 65536

RECURSIVE XorN(_, _, _)
\* bitwise exclusive or of the n low bits of a and b
XorN(a, b, n) ==
    IF n = 0 THEN 0
    ELSE (((a % 2) + (b % 2)) % 2) + 2 * XorN(a \div 2, b \div 2, n - 1)

RECURSIVE OrN(_, _, _)
\* bitwise or of the n low bits of a and b
OrN(a, b, n) ==
    IF n = 0 THEN 0
    ELSE (IF a % 2 = 1 \/ b % 2 = 1 THEN 1 ELSE 0) + 2 * OrN(a \div 2, b \div 2, n - 1)

RECURSIVE Pow2(_)
Pow2(n) == IF n = 0 THEN 1 ELSE 2 * Pow2(n - 1)

\* the powers of two up to 2^16, tabulated
PowersOfTwo == [n \in 0..16 |-> Pow2(n)]

\* the exclusive or and the or of two 4-bit numbers, tabulated
XorTable == [a \in 0..15 |-> [b \in 0..15 |-> XorN(a, b, 4)]]
OrTable == [a \in 0..15 |-> [b \in 0..15 |-> OrN(a, b, 4)]]

\* a ^ b for 16-bit a and b, four bits at a time
Xor16(a, b) ==
    XorTable[a % 16][b % 16]
        + 16 * XorTable[(a \div 16) % 16][(b \div 16) % 16]
        + 256 * XorTable[(a \div 256) % 16][(b \div 256) % 16]
        + 4096 * XorTable[a \div 4096][b \div 4096]

\* a | b for 16-bit a and b, four bits at a time
Or16(a, b) ==
    OrTable[a % 16][b % 16]
        + 16 * OrTable[(a \div 16) % 16][(b \div 16) % 16]
        + 256 * OrTable[(a \div 256) % 16][(b \div 256) % 16]
        + 4096 * OrTable[a \div 4096][b \div 4096]

\* a ^ b on words
Xor32(a, b) == <<Xor16(a[1], b[1]), Xor16(a[2], b[2])>>

\* c | a for a constant 0 <= c < 65536
OrLow(c, a) == <<a[1], Or16(c, a[2])>>

\* a >>> n for 0 < n < 16
Shr(a, n) ==
    LET p == PowersOfTwo[n]
    IN  <<a[1] \div p, (a[1] % p) * PowersOfTwo[16 - n] + a[2] \div p>>

\* x * y for 16-bit x and y, as a word (no product exceeds 2^24)
Mul16(x, y) ==
    LET p0 == (x % 256) * y
        p1 == (x \div 256) * y
        low == p0 + (p1 % 256) * 256
    IN  <<(low \div H + p1 \div 256) % H, low % H>>

\* Math.imul(a, b): the low 32 bits of the product
Imul(a, b) ==
    LET ll == Mul16(a[2], b[2])
        cross == Mul16(a[1], b[2])[2] + Mul16(a[2], b[1])[2]
    IN  <<(ll[1] + cross) % H, ll[2]>>

\* (a + b) | 0 on words: the sum modulo 2^32
Add32(a, b) ==
    LET lo == a[2] + b[2]
    IN  <<(a[1] + b[1] + lo \div H) % H, lo % H>>

\* x | 0 : the signed value of a bit pattern
ToInt32(a) == <<((a[1] + 32768) % H) - 32768, a[2]>>

\* x >>> 0 : the unsigned value of a bit pattern
ToUint32Drop(a) == ToInt32(a)
ToUint32(a) == <<a[1] % H, a[2]>>

\* ------------------------------------------------------------------------
\* Seeded PRNG (mulberry32)
\* ------------------------------------------------------------------------

\* 0x6D2B79F5
GoldenHi == 27947
GoldenLo == 31221
Golden == <<GoldenHi, GoldenLo>>

\* let s = seed | 0 : the bit pattern of the seed
MulberrySeed(seed) == <<seed[1] % H, seed[2]>>

\* s = (s + 0x6D2B79F5) | 0
MulberryStep(s) == Add32(s, Golden)

\* let t = Math.imul(s ^ (s >>> 15), 1 | s)
Round1(s) == Imul(Xor32(s, Shr(s, 15)), OrLow(1, s))

\* t = (t + Math.imul(t ^ (t >>> 7), 61 | t)) ^ t
Round2(t) == Xor32(Add32(t, Imul(Xor32(t, Shr(t, 7)), OrLow(61, t))), t)

\* (t ^ (t >>> 14)) >>> 0
Round3(t) == ToUint32(Xor32(t, Shr(t, 14)))

\* the two mixing rounds and the final >>> 0, on the state after the step
MulberryOut(s) == Round3(Round2(Round1(s)))

\* one call of the closure mulberry32(seed) returned: [s |-> new state, u |-> numerator]
MulberryNext(s) ==
    LET s1 == MulberryStep(s)
    IN  [s |-> s1, u |-> MulberryOut(s1)]

\* ------------------------------------------------------------------------
\* Real arithmetic of the generators, in fixed point
\*
\* Dimensionless quantities (draws, ratios, sines, unit vectors, chances) are
\* integers in thousandths; lengths, radii and coordinates are integers in
\* hundredths of a world unit; angles are whole degrees; flows are integers
\* in millionths.  Every quotient is rounded down.
\* ------------------------------------------------------------------------

\* a * b for b in thousandths
Mil(a, b) == (a * b) \div 1000

\* floor(rand() * 1000) for the draw u / 2^32
RandMil(u) == (u[1] * 1000 + (u[2] * 1000) \div H) \div H

\* Math.floor(rand() * 3)
RandFloor3(u) == (u[1] * 3 + (u[2] * 3) \div H) \div H

\* rand() < 0.5
RandBelowHalf(u) == u[1] < 32768

\* rand() at seven bits, as the odd numerator of a fraction over 256 (the
\* midpoint of the draw's 128th), for the exact flow weights
RandMid(u) == 2 * (u[1] \div 512) + 1

\* floor(a * w / den) for 0 <= w <= den, computed without leaving 32 bits
MulDiv(a, w, den) == (a \div den) * w + ((a % den) * w) \div den

RECURSIVE ISqrtIn(_, _, _)
\* the largest r in lo..hi with r * r <= n (lo * lo <= n)
ISqrtIn(n, lo, hi) ==
    IF lo >= hi THEN lo
    ELSE LET mid == (lo + hi + 1) \div 2
         IN  IF mid * mid <= n THEN ISqrtIn(n, mid, hi) ELSE ISqrtIn(n, lo, mid - 1)

\* Math.sqrt, rounded down
ISqrt(n) == ISqrtIn(n, 0, 46340)

RECURSIVE ICbrtIn(_, _, _)
ICbrtIn(n, lo, hi) ==
    IF lo >= hi THEN lo
    ELSE LET mid == (lo + hi + 1) \div 2
         IN  IF mid * mid * mid <= n THEN ICbrtIn(n, mid, hi) ELSE ICbrtIn(n, lo, mid - 1)

\* Math.cbrt, rounded down
ICbrt(n) == ICbrtIn(n, 0, 1290)

\* 1000 * sin(d degrees), d in 0..90
SinTable ==
    <<  0, 17, 35, 52, 70, 87, 105, 122, 139, 156, 174, 191, 208,
        225, 242, 259, 276, 292, 309, 326, 342, 358, 375, 391, 407, 423,
        438, 454, 469, 485, 500, 515, 530, 545, 559, 574, 588, 602, 616,
        629, 643, 656, 669, 682, 695, 707, 719, 731, 743, 755, 766, 777,
        788, 799, 809, 819, 829, 839, 848, 857, 866, 875, 883, 891, 899,
        906, 914, 921, 927, 934, 940, 946, 951, 956, 961, 966, 970, 974,
        978, 982, 985, 988, 990, 993, 995, 996, 998, 999, 999, 1000, 1000 >>

\* Math.sin of an angle in degrees, in thousandths
Sin(d) ==
    LET a == d % 360
    IN  IF a <= 90 THEN SinTable[a + 1]
        ELSE IF a <= 180 THEN SinTable[180 - a + 1]
        ELSE IF a <= 270 THEN 0 - SinTable[a - 180 + 1]
        ELSE 0 - SinTable[360 - a + 1]

\* Math.cos of an angle in degrees, in thousandths
Cos(d) == Sin(d + 90)

RECURSIVE AcosFrom(_, _)
AcosFrom(c, d) == IF d >= 180 \/ Cos(d + 1) < c THEN d ELSE AcosFrom(c, d + 1)

\* Math.acos of a cosine in thousandths (within [-1000, 1000]), in degrees
Acos(c) == AcosFrom(c, 0)

\* statement order: x has its value before e is evaluated (operands are
\* otherwise evaluated on demand, the whole call at its last statement)
After(x, e) == IF x = x THEN e ELSE e

\* the function f with all its values computed
Tabulated(f) == After(f, f)

Abs(x) == IF x < 0 THEN 0 - x ELSE x
Min(a, b) == IF a < b THEN a ELSE b
Max(a, b) == IF a > b THEN a ELSE b

RECURSIVE Draws(_, _)
DrawsFrom(r, n) == <<r>> \o Draws(r.s, n - 1)

\* the next n calls of rand() from the closure state s: the records
\* [s |-> state after the call, u |-> numerator of the draw], in order
Draws(s, n) ==
    After(s, IF n = 0 THEN <<>> ELSE DrawsFrom(MulberryNext(s), n))

\* ------------------------------------------------------------------------
\* Vector3 (three.js)
\* ------------------------------------------------------------------------

VAdd(a, b) == <<a[1] + b[1], a[2] + b[2], a[3] + b[3]>>
VSub(a, b) == <<a[1] - b[1], a[2] - b[2], a[3] - b[3]>>

\* v.multiplyScalar(k), k in thousandths
VScale(v, k) == <<Mil(v[1], k), Mil(v[2], k), Mil(v[3], k)>>

VNegate(v) == <<0 - v[1], 0 - v[2], 0 - v[3]>>

VLengthSq(v) == v[1] * v[1] + v[2] * v[2] + v[3] * v[3]

\* v.normalize(): divideScalar(length() || 1), the result a unit vector in thousandths
VNormalize(v) ==
    LET len == ISqrt(VLengthSq(v))
    IN  IF len = 0 THEN v
        ELSE <<(v[1] * 1000) \div len, (v[2] * 1000) \div len, (v[3] * 1000) \div len>>

\* crossVectors(a, b) with a in thousandths
VCross(a, b) ==
    << Mil(a[2], b[3]) - Mil(a[3], b[2]),
       Mil(a[3], b[1]) - Mil(a[1], b[3]),
       Mil(a[1], b[2]) - Mil(a[2], b[1]) >>

\* a.dot(b) with a in thousandths
VDot(a, b) == Mil(a[1], b[1]) + Mil(a[2], b[2]) + Mil(a[3], b[3])

\* the square of a.distanceTo(b)
VDistSq(a, b) == VLengthSq(VSub(a, b))

\* v*cos + (k x v)*sin + k*(k.v)*(1-cos) for the unit vector k
Rodrigues(v, k, cos, sin) ==
    VAdd(VAdd(VScale(v, cos), VScale(VCross(k, v), sin)),
         VScale(k, Mil(VDot(k, v), 1000 - cos)))

\* Rodrigues' rotation of v about axis by angle degrees
RotateAround(v, axis, angle) == Rodrigues(v, VNormalize(axis), Cos(angle), Sin(angle))

\* a vector perpendicular to dir; the rand argument is never called
RandomPerpendicular(dir) ==
    LET arbitrary == IF Abs(dir[2]) < 900 THEN <<0, 1000, 0>> ELSE <<1000, 0, 0>>
    IN  VNormalize(VCross(dir, arbitrary))

\* ------------------------------------------------------------------------
\* Branch data
\* ------------------------------------------------------------------------

\* A Branch {start, end, startRadius, endRadius, depth}.  The further fields
\* are not part of the program's record; they keep what the generator knew
\* when it pushed the branch: parent is the index of the branch whose
\* recurse call made this one (0 for the stump, 1 for a primary), pair the
\* node indices <<i, j>> a fused branch joins (<<>> otherwise), flow the
\* branch's flow, and num / den the flow fraction it received.
Branch(start, end, startRadius, endRadius, depth, parent, pair, flow, num, den) ==
    [start |-> start, end |-> end, startRadius |-> startRadius,
     endRadius |-> endRadius, depth |-> depth,
     parent |-> parent, pair |-> pair, flow |-> flow, num |-> num, den |-> den]

\* the fields of the program's Branch record
BranchFields(b) ==
    [start |-> b.start, end |-> b.end, startRadius |-> b.startRadius,
     endRadius |-> b.endRadius, depth |-> b.depth]

BranchList(bs) == [k \in 1..Len(bs) |-> BranchFields(bs[k])]

\* const rand = mulberry32(seed): a closure of the call's own; the state a
\* previous call left behind is not read
CallRandShared(seed, left) == IF left = <<>> THEN MulberrySeed(seed) ELSE left
CallRand(seed, left) == MulberrySeed(seed)

\* ------------------------------------------------------------------------
\* Anastomosis pass (the same code in both generators)
\* ------------------------------------------------------------------------

\* nodes.push({ pos: b.start, radius: b.startRadius, depth: b.depth })
Nodes(bs) ==
    [k \in 1..Len(bs) |-> [pos |-> bs[k].start, radius |-> bs[k].startRadius, depth |-> bs[k].depth]]

\* dist < 0.5 || dist > fusionDist
OutOfBand(a, b, fusionDist) ==
    LET dsq == VDistSq(a, b)
    IN  dsq < 50 * 50 \/ dsq > fusionDist * fusionDist

\* anastomosis * depthFactor * depthFactor with depthFactor = 1 - avgDepth / depthNorm
FuseChance(anastomosis, di, dj, depthNorm) ==
    LET depthFactor == 1000 - (500 * (di + dj)) \div depthNorm
    IN  Mil(Mil(anastomosis, depthFactor), depthFactor)

\* Math.min(nodes[i].radius, nodes[j].radius)
FusedRadiusMax(ri, rj) == Max(ri, rj)
FusedRadius(ri, rj) == Min(ri, rj)

\* fused.add(i); fused.add(j)
FusedMarkFirst(i, j) == {i}
FusedMark(i, j) == {i, j}

\* the branch pushed for the fused pair i, j
FusedBranch(nodes, i, j) ==
    LET fusedR == FusedRadius(nodes[i].radius, nodes[j].radius)
    IN  Branch(nodes[i].pos, nodes[j].pos, fusedR, fusedR,
               Max(nodes[i].depth, nodes[j].depth), 0, <<i, j>>, 0, 0, 1)

\* if (rand() < chance) { ... } for the draw r
FuseDraw(st, nodes, i, j, r, chance) ==
    IF RandMil(r.u) < chance
    THEN [rng |-> r.s,
          branches |-> Append(st.branches, FusedBranch(nodes, i, j)),
          fused |-> st.fused \cup FusedMark(i, j),
          hit |-> TRUE]
    ELSE [st EXCEPT !.rng = r.s]

\* the body of the inner loop without the break
FuseTryOn(st, nodes, i, j, fusionDist, anastomosis, depthNorm) ==
    IF j \in st.fused \/ OutOfBand(nodes[i].pos, nodes[j].pos, fusionDist)
    THEN st
    ELSE FuseDraw(st, nodes, i, j, MulberryNext(st.rng),
                  FuseChance(anastomosis, nodes[i].depth, nodes[j].depth, depthNorm))

\* the body of the inner loop for one j; st.hit says that the loop was left
\* by break
FuseTry(st, nodes, i, j, fusionDist, anastomosis, depthNorm) ==
    IF st.hit \/ j \in st.fused \/ OutOfBand(nodes[i].pos, nodes[j].pos, fusionDist)
    THEN st
    ELSE FuseDraw(st, nodes, i, j, MulberryNext(st.rng),
                  FuseChance(anastomosis, nodes[i].depth, nodes[j].depth, depthNorm))

RECURSIVE FuseInner(_, _, _, _, _, _, _, _)
\* the iterations j = lo, ..., hi of the inner loop for one i, in this order
\* (the range is walked by halves, first half first)
FuseInner(st, nodes, i, lo, hi, fusionDist, anastomosis, depthNorm) ==
    After(st.rng,
    IF lo > hi THEN st
    ELSE IF lo = hi THEN FuseTry(st, nodes, i, lo, fusionDist, anastomosis, depthNorm)
    ELSE LET mid == (lo + hi) \div 2
         IN  FuseInner(FuseInner(st, nodes, i, lo, mid, fusionDist, anastomosis, depthNorm),
                       nodes, i, mid + 1, hi, fusionDist, anastomosis, depthNorm))

\* the body of the outer loop for one i
FuseFrom(st, nodes, i, fusionDist, anastomosis, depthNorm) ==
    IF i \in st.fused THEN st
    ELSE FuseInner([st EXCEPT !.hit = FALSE], nodes, i, i + 1, Len(nodes),
                   fusionDist, anastomosis, depthNorm)

RECURSIVE FuseOuter(_, _, _, _, _, _, _)
\* the iterations i = lo, ..., hi of the outer loop, in this order
FuseOuter(st, nodes, lo, hi, fusionDist, anastomosis, depthNorm) ==
    After(st.rng,
    IF lo > hi THEN st
    ELSE IF lo = hi THEN FuseFrom(st, nodes, lo, fusionDist, anastomosis, depthNorm)
    ELSE LET mid == (lo + hi) \div 2
         IN  FuseOuter(FuseOuter(st, nodes, lo, mid, fusionDist, anastomosis, depthNorm),
                       nodes, mid + 1, hi, fusionDist, anastomosis, depthNorm))

\* the closure state and the branches at the end of the pass
Returned(st) == [rng |-> st.rng, branches |-> st.branches]

\* the scan over the nodes taken from the branches
FuseScan(st, nodes, fusionDist, anastomosis, depthNorm) ==
    Returned(FuseOuter([rng |-> st.rng, branches |-> st.branches, fused |-> {},
                        hit |-> FALSE],
                       nodes, 1, Len(nodes), fusionDist, anastomosis, depthNorm))

\* if (anastomosis > 0) { ... }
Anastomosis(st, primaryLen, anastomosis, depthNorm) ==
    After(st.rng,
    IF anastomosis > 0
    THEN FuseScan(st, Nodes(st.branches), (primaryLen * 4) \div 10, anastomosis, depthNorm)
    ELSE st)

\* ------------------------------------------------------------------------
\* Classic tree generation (Type 1)
\* ------------------------------------------------------------------------

\* rand() < 0.5 ? 2 : 3
ChildCountWide(u) == IF RandBelowHalf(u) THEN 2 ELSE 4
ChildCount(u) == IF RandBelowHalf(u) THEN 2 ELSE 3

\* the arguments recurse passes on for a child: <<origin, parentRadius>>
ClassicJointSwapped(end, radius, childRadius) == <<end, childRadius>>
ClassicJoint(end, radius, childRadius) == <<end, radius>>

\* if (depth >= generations) return
ClassicLeaf(depth, generations) == depth >= generations

RECURSIVE ClassicRecurse(_, _, _, _, _, _, _, _, _)
RECURSIVE ClassicChildren(_, _, _, _, _, _, _, _, _, _)
RECURSIVE ClassicBranching(_, _, _, _, _, _, _)

\* recurse(origin, direction, length, parentRadius, radius, depth); parent is
\* the index of the caller's branch
ClassicRecurse(st, P, origin, direction, length, parentRadius, radius, depth, parent) ==
    After(st.rng,
    LET end == VAdd(origin, VScale(direction, length))
        pushed == Append(st.branches,
                         Branch(origin, end, parentRadius, radius, depth, parent, <<>>, 0, 0, 1))
    IN  IF ClassicLeaf(depth, P.generations)
        THEN [rng |-> st.rng, branches |-> pushed]
        ELSE ClassicBranching([rng |-> st.rng, branches |-> pushed], P, end, direction,
                              length, radius, depth))

\* const childCount = rand() < 0.5 ? 2 : 3, and the loop over the children; the
\* caller's branch is the last one pushed
ClassicBranching(st, P, end, direction, length, radius, depth) ==
    ClassicChildren([rng |-> Draws(st.rng, 1)[1].s, branches |-> st.branches], P, end,
                    direction, length, radius, depth, Len(st.branches), 0,
                    ChildCount(Draws(st.rng, 1)[1].u))

\* for (let c = 0; c < childCount; c++) { ... } from c on
ClassicChildren(st, P, end, direction, length, radius, depth, self, c, childCount) ==
    After(st.rng,
    IF c >= childCount THEN st
    ELSE LET d == Draws(st.rng, 3)
             perp == RandomPerpendicular(direction)
             azimuth == (360 * RandMil(d[1].u)) \div 1000
             rotatedPerp == RotateAround(perp, direction, azimuth)
             childDir == VNormalize(RotateAround(direction, rotatedPerp,
                                    Mil(P.branchAngle, 800 + Mil(400, RandMil(d[2].u)))))
             childLength == Mil(Mil(length, P.branchLength), 500 + RandMil(d[3].u))
             childRadius == Mil(radius, P.taper)
             joint == ClassicJoint(end, radius, childRadius)
             after == ClassicRecurse([rng |-> d[3].s, branches |-> st.branches], P,
                                     joint[1], childDir, childLength, joint[2],
                                     childRadius, depth + 1, self)
         IN  ClassicChildren(after, P, end, direction, length, radius, depth, self,
                             c + 1, childCount))

\* (i / primaryCount) * Math.PI * 2 + (rand() - 0.5) * 0.6, in degrees
PrimaryAzimuth(i, primaryCount, u) ==
    (360 * i) \div primaryCount + ((RandMil(u) - 500) * 34) \div 1000

\* new Vector3(sin(fanAngle) * cos(azimuth), cos(fanAngle),
\* sin(fanAngle) * sin(azimuth)).normalize()
FanDirection(fanAngle, azimuth) ==
    VNormalize(<< Mil(Sin(fanAngle), Cos(azimuth)),
                  Cos(fanAngle),
                  Mil(Sin(fanAngle), Sin(azimuth)) >>)

\* stumpTop.clone().add(new Vector3(cos(azimuth) * jitterRadius,
\* (rand() - 0.5) * jitterRadius * 0.5, sin(azimuth) * jitterRadius))
JitteredStart(stumpTop, jitterRadius, azimuth, u) ==
    VAdd(stumpTop,
         << Mil(jitterRadius, Cos(azimuth)),
            Mil(Mil(jitterRadius, RandMil(u) - 500), 500),
            Mil(jitterRadius, Sin(azimuth)) >>)

RECURSIVE ClassicPrimaries(_, _, _, _, _, _, _)
\* for (let i = 0; i < primaryCount; i++) { ... } from i on
ClassicPrimaries(st, P, i, primaryCount, primaryLen, stumpTop, jitterRadius) ==
    After(st.rng,
    IF i >= primaryCount THEN st
    ELSE LET d == Draws(st.rng, 5)
             azimuth == PrimaryAzimuth(i, primaryCount, d[1].u)
             fanAngle == Mil(P.branchAngle, 1200 + RandMil(d[2].u))
             dir == FanDirection(fanAngle, azimuth)
             startPos == JitteredStart(stumpTop, jitterRadius, azimuth, d[3].u)
             len == Mil(primaryLen, 700 + Mil(600, RandMil(d[4].u)))
             primaryRadius == Mil(P.trunkThickness, 600 + Mil(300, RandMil(d[5].u)))
             after == ClassicRecurse([rng |-> d[5].s, branches |-> st.branches], P, startPos,
                                     dir, len, P.trunkThickness, primaryRadius, 1, 1)
         IN  ClassicPrimaries(after, P, i + 1, primaryCount, primaryLen, stumpTop, jitterRadius))

\* const { key = value, ... } = params: a key absent from params takes the
\* value written in the destructuring pattern
Destructured(params, defaults) ==
    [key \in DOMAIN defaults |-> IF key \in DOMAIN params THEN params[key] ELSE defaults[key]]

\* the destructuring pattern of generateTreeClassic
ClassicDefaults ==
    [generations |-> 4, branchAngle |-> 35, branchLength |-> 650, seed |-> <<0, 42>>,
     trunkThickness |-> 100, taper |-> 600, anastomosis |-> 300]

\* generateTreeClassic(params); left is the PRNG state the previous call ended with.
\* Returns [rng |-> the closure's final state, branches |-> the returned list]
GenerateTreeClassic(params, left) ==
    LET P == Destructured(params, ClassicDefaults)
        rand == CallRand(P.seed, left)
        primaryLen == (P.branchLength * 8) \div 10
        stumpHeight == (primaryLen * 15) \div 100
        base == <<0, 0, 0>>
        stumpTop == <<0, stumpHeight, 0>>
        stump == Branch(base, stumpTop, P.trunkThickness, P.trunkThickness, 0, 0, <<>>, 0, 0, 1)
        r0 == MulberryNext(rand)
        primaryCount == 5 + RandFloor3(r0.u)
        jitterRadius == (stumpHeight * 3) \div 10
        tree == ClassicPrimaries([rng |-> r0.s, branches |-> <<stump>>], P, 0, primaryCount,
                                 primaryLen, stumpTop, jitterRadius)
    IN  Anastomosis(tree, primaryLen, P.anastomosis, P.generations)

\* ------------------------------------------------------------------------
\* Kitaoka-inspired tree generation (Type 2)
\*
\* A flow fraction is kept exactly, as a weight num over a denominator den
\* shared by the children of one branching event.  Math.pow(f, p / n) is
\* computed as the p-th power of the n-th root, the exponent n in tenths.
\* ------------------------------------------------------------------------

MAX_DEPTH == 20

RECURSIVE IPow(_, _)
\* x to the p, x in thousandths
IPow(x, p) == IF p = 0 THEN 1000 ELSE Mil(IPow(x, p - 1), x)

RECURSIVE PowBits(_, _, _)
\* the product of the repeated square roots r, r^(1/2), r^(1/4), ... picked by
\* the binary digits of e, w the weight of the digit that picks r
PowBits(r, e, w) ==
    IF w = 0 THEN 1000
    ELSE Mil(IF e >= w THEN r ELSE 1000,
             PowBits(ISqrt(r * 1000), IF e >= w THEN e - w ELSE e, w \div 2))

\* Math.pow(f, 1 / n), f in thousandths, n in tenths: exact roots for n = 2
\* and n = 3, else 1 / n to eight binary digits
Root(f, n) ==
    IF n = 20 THEN ISqrt(f * 1000)
    ELSE IF n = 30 THEN ICbrt(f * 1000000)
    ELSE PowBits(ISqrt(f * 1000), 2560 \div n, 128)

\* the power one too high
PowNext(f, p, n) == IPow(Root(f, n), p + 1)

\* Math.pow(f, p / n)
Pow(f, p, n) == IPow(Root(f, n), p)

\* Math.max(-1, Math.min(1, cosTheta))
Clamp1(c) == Max(-1000, Min(1000, c))

\* kamiyaAngle(f, n), in degrees; f > 0, and the float f^(2/n) is then
\* positive, so its fixed-point value is kept from rounding down to 0
KamiyaAngle(f, n) ==
    LET fE == Pow(f, 4, n)
        fE2 == Max(1, Pow(f, 2, n))
        oneMinusFE == Pow(1000 - f, 4, n)
        cosTheta == ((1000 + fE - oneMinusFE) * 1000) \div (2 * fE2)
    IN  Acos(Clamp1(cosTheta))

\* Math.pow(2, -density), in millionths
FlowThreshold(density) == 1000000 \div Pow2(density)

RECURSIVE InsertDesc(_, _)
\* x put into the descending sequence s behind the elements not smaller
InsertDesc(s, x) ==
    IF s = <<>> THEN <<x>>
    ELSE IF Head(s) >= x THEN <<Head(s)>> \o InsertDesc(Tail(s), x)
    ELSE <<x>> \o s

RECURSIVE SortDesc(_)
\* fractions.sort((a, b) => b - a)
SortDesc(s) == IF s = <<>> THEN <<>> ELSE InsertDesc(SortDesc(Tail(s)), Head(s))

\* the binary split [r, 1 - r] with r = (0.5 - asymmetry) + rand() * asymmetry,
\* as weights over 25600 (asymmetry in hundredths, the draw over 256)
BinarySplitBoth(asymmetry, k) ==
    LET r == 256 * (50 - asymmetry) + k * asymmetry
    IN  [w |-> <<r, r>>, den |-> 25600]
BinarySplit(asymmetry, k) ==
    LET r == 256 * (50 - asymmetry) + k * asymmetry
    IN  [w |-> <<r, 25600 - r>>, den |-> 25600]

\* the ternary split [a / sum, b / sum, c / sum] with a = 1 + rand(), b = rand(),
\* c = rand(), as weights over 256 put over their sum
TernarySplit(ka, kb, kc) ==
    LET a == 256 + ka
        b == kb
        c == kc
    IN  [w |-> <<a, b, c>>, den |-> a + b + c]

\* fractions.sort((a, b) => b - a)
SortedSplit(split) == [w |-> SortDesc(split.w), den |-> split.den]

\* the test without the flow
DepthLeaf(flow, flowThreshold, depth) == depth >= MAX_DEPTH

\* the test without the depth cap
FlowLeaf(flow, flowThreshold, depth) == flow < flowThreshold

\* if (flow < flowThreshold || depth >= MAX_DEPTH) return
KitaokaLeaf(flow, flowThreshold, depth) == flow < flowThreshold \/ depth >= MAX_DEPTH

RECURSIVE KitaokaRecurse(_, _, _, _, _, _, _, _, _, _, _, _)
RECURSIVE KitaokaChildren(_, _, _, _, _, _, _, _, _, _, _)
RECURSIVE KitaokaBranching(_, _, _, _, _, _, _, _)
RECURSIVE KitaokaSplit(_, _, _, _, _, _, _, _, _)

\* recurse(origin, direction, parentRadius, radius, depth, flow, planeNormal);
\* parent is the index of the caller's branch, num / den the fraction of the
\* caller's flow that flow is
KitaokaRecurse(st, P, origin, direction, parentRadius, radius, depth, flow, planeNormal, parent, num, den) ==
    After(st.rng,
    LET d == Draws(st.rng, 1)
        length == Mil(Mil(radius, P.branchLength), 700 + Mil(600, RandMil(d[1].u)))
        end == VAdd(origin, VScale(direction, length))
        pushed == [rng |-> d[1].s,
                   branches |-> Append(st.branches,
                                       Branch(origin, end, parentRadius, radius, depth, parent,
                                              <<>>, flow, num, den))]
    IN  IF KitaokaLeaf(flow, FlowThreshold(P.density), depth)
        THEN pushed
        ELSE KitaokaBranching(pushed, P, end, direction, radius, depth, flow, planeNormal))

\* fractions, sorted descending, for childCount children and the draws d
\* that follow the draw of childCount
Fractions(asymmetry, childCount, d) ==
    IF childCount = 2
    THEN SortedSplit(BinarySplit(asymmetry, RandMid(d[1].u)))
    ELSE SortedSplit(TernarySplit(RandMid(d[1].u), RandMid(d[2].u), RandMid(d[3].u)))

\* crossVectors(direction, planeNormal).normalize(), or a perpendicular of
\* direction when the two are parallel
NewPlaneNormal(direction, crossed) ==
    IF VLengthSq(crossed) < 1000 THEN RandomPerpendicular(direction) ELSE crossed

\* the draw of childCount, the fractions, the new branching plane and the
\* loop over the children; the caller's branch is the last one pushed
KitaokaBranching(st, P, end, direction, radius, depth, flow, planeNormal) ==
    KitaokaSplit(st, P, end, direction, radius, depth, flow, planeNormal, Draws(st.rng, 4))

\* d holds the draw of childCount and the three draws after it, of which a
\* binary split makes one and a ternary split all three
KitaokaSplit(st, P, end, direction, radius, depth, flow, planeNormal, d) ==
    KitaokaChildren([rng |-> IF ChildCount(d[1].u) = 2 THEN d[2].s ELSE d[4].s,
                     branches |-> st.branches],
                    P, end, direction, radius, depth, flow,
                    NewPlaneNormal(direction, VNormalize(VCross(direction, planeNormal))),
                    Len(st.branches), Fractions(P.asymmetry, ChildCount(d[1].u), Tail(d)), 0)

\* for (let c = 0; c < childCount; c++) { ... } from c on
KitaokaChildren(st, P, end, direction, radius, depth, flow, newPlaneNormal, self, split, c) ==
    After(st.rng,
    IF c >= Len(split.w) THEN st
    ELSE LET childCount == Len(split.w)
             f == (1000 * split.w[c + 1]) \div split.den
             childFlow == MulDiv(flow, split.w[c + 1], split.den)
             childRadius == Mil(radius, Pow(f, 1, P.diameterExponent))
             angle == KamiyaAngle(f, P.diameterExponent)
             r1 == MulberryNext(st.rng)
             azimuth == (360 * c) \div childCount + ((RandMil(r1.u) - 500) * 23) \div 1000
             deflectionAxis ==
                 IF childCount = 2
                 THEN IF c = 0 THEN newPlaneNormal ELSE VNegate(newPlaneNormal)
                 ELSE VNormalize(RotateAround(newPlaneNormal, direction, azimuth))
             childDir == VNormalize(RotateAround(direction, deflectionAxis, angle))
             after == KitaokaRecurse([rng |-> IF childCount = 2 THEN st.rng ELSE r1.s,
                                      branches |-> st.branches],
                                     P, end, childDir, radius, childRadius, depth + 1,
                                     childFlow, newPlaneNormal, self,
                                     split.w[c + 1], split.den)
         IN  KitaokaChildren(after, P, end, direction, radius, depth, flow, newPlaneNormal,
                             self, split, c + 1))

\* const f = 0.7 + rand() * 0.6; primaryFlows.push(f), for the draw r
PrimaryFlow(acc, r) == [rng |-> r.s, w |-> Append(acc.w, 1792 + 6 * RandMid(r.u))]

RECURSIVE PrimaryFlows(_, _, _)
\* the loop filling primaryFlows: [rng, w] after count further draws, the
\* weights 0.7 + rand() * 0.6 over 2560
PrimaryFlows(acc, count, primaryCount) ==
    After(acc.rng,
    IF count >= primaryCount THEN acc
    ELSE PrimaryFlows(PrimaryFlow(acc, MulberryNext(acc.rng)), count + 1, primaryCount))

RECURSIVE SumSeq(_)
SumSeq(s) == IF s = <<>> THEN 0 ELSE Head(s) + SumSeq(Tail(s))

\* const planeNormal = randomPerpendicular(dir, rand);
\* recurse(startPos, dir, trunkThickness, primaryRadius, 1, primaryFlow, planeNormal)
KitaokaPrimary(st, P, startPos, dir, primaryRadius, primaryFlow, num, den) ==
    KitaokaRecurse(st, P, startPos, dir, P.trunkThickness, primaryRadius, 1, primaryFlow,
                   RandomPerpendicular(dir), 1, num, den)

RECURSIVE KitaokaPrimaries(_, _, _, _, _, _, _, _)
\* for (let i = 0; i < primaryCount; i++) { ... } from i on
KitaokaPrimaries(st, P, i, primaryCount, primaryFlows, flowSum, stumpTop, jitterRadius) ==
    After(st.rng,
    IF i >= primaryCount THEN st
    ELSE LET d == Draws(st.rng, 3)
             azimuth == PrimaryAzimuth(i, primaryCount, d[1].u)
             fanAngle == 30 + Mil(30, RandMil(d[2].u))
             dir == FanDirection(fanAngle, azimuth)
             startPos == JitteredStart(stumpTop, jitterRadius, azimuth, d[3].u)
             fraction == (1000 * primaryFlows[i + 1]) \div flowSum
             primaryRadius == Mil(P.trunkThickness, Pow(fraction, 1, P.diameterExponent))
             primaryFlow == MulDiv(1000000, primaryFlows[i + 1], flowSum)
             after == KitaokaPrimary([rng |-> d[3].s, branches |-> st.branches], P,
                                     startPos, dir, primaryRadius, primaryFlow,
                                     primaryFlows[i + 1], flowSum)
         IN  KitaokaPrimaries(after, P, i + 1, primaryCount, primaryFlows, flowSum,
                              stumpTop, jitterRadius))

\* the depth cap in place of the largest depth
DepthCap(bs, m) == MAX_DEPTH

\* branches.reduce((m, b) => Math.max(m, b.depth), m)
MaxDepthOf(bs, m) ==
    LET depths == {bs[k].depth : k \in 1..Len(bs)} \cup {m}
    IN  CHOOSE d \in depths : \A e \in depths : d >= e

\* the anastomosis pass, normalised by the largest depth in the tree
KitaokaFused(P, primaryLen, tree) ==
    After(tree.rng,
          Anastomosis(tree, primaryLen, P.anastomosis, MaxDepthOf(tree.branches, 1)))

\* the loop over the primaries for the weights drawn, and the anastomosis pass
KitaokaTree(P, flows, primaryCount, stump, primaryLen, stumpTop, jitterRadius) ==
    KitaokaFused(P, primaryLen,
                 KitaokaPrimaries([rng |-> flows.rng, branches |-> <<stump>>], P, 0,
                                  primaryCount, flows.w, SumSeq(flows.w), stumpTop,
                                  jitterRadius))

\* the primaries for the draw r0 of primaryCount, and the anastomosis pass
KitaokaFanOut(P, r0, stump, primaryLen, stumpTop, jitterRadius) ==
    KitaokaTree(P, PrimaryFlows([rng |-> r0.s, w |-> <<>>], 0, 5 + RandFloor3(r0.u)),
                5 + RandFloor3(r0.u), stump, primaryLen, stumpTop, jitterRadius)

\* the destructuring pattern of generateTreeKitaoka
KitaokaDefaults ==
    [density |-> 4, diameterExponent |-> 28, asymmetry |-> 15, branchLength |-> 3000,
     seed |-> <<0, 42>>, trunkThickness |-> 100, anastomosis |-> 300]

\* generateTreeKitaoka(params); left is the PRNG state the previous call ended with.
\* Returns [rng |-> the closure's final state, branches |-> the returned list]
GenerateTreeKitaoka(params, left) ==
    LET P == Destructured(params, KitaokaDefaults)
        rand == CallRand(P.seed, left)
        primaryLen == (Mil(P.trunkThickness, P.branchLength) * 25) \div 10
        stumpHeight == (primaryLen * 15) \div 100
        base == <<0, 0, 0>>
        stumpTop == <<0, stumpHeight, 0>>
        stump == Branch(base, stumpTop, P.trunkThickness, P.trunkThickness, 0, 0, <<>>,
                        1000000, 1, 1)
        jitterRadius == (stumpHeight * 3) \div 10
    IN  KitaokaFanOut(P, Draws(rand, 1)[1], stump, primaryLen, stumpTop, jitterRadius)

\* ------------------------------------------------------------------------
\* fillDistanceField: the scalar field of the tapered cones
\*
\* Lengths are in hundredths as above, the projection parameter t and a
\* falloff in thousandths, a field value in thousandths of the influence
\* unit.  The Float32Array of a grid of resolution^3 voxels is a function on
\* 0 .. resolution^3 - 1.
\* ------------------------------------------------------------------------

\* Math.floor(n / d) and Math.ceil(n / d) for d > 0
FloorDiv(n, d) == n \div d
CeilDiv(n, d) == 0 - ((0 - n) \div d)

\* const wx = ix * voxelSize - halfSize
World(i, voxelSize, halfSize) == i * voxelSize - halfSize

\* the dot product of two vectors in hundredths, unscaled
Dot(a, b) == a[1] * b[1] + a[2] * b[2] + a[3] * b[3]

\* the projection with the far end taken for a branch of no length
ProjectionEnd(dot, abLenSq) ==
    IF abLenSq > 0 THEN Max(0, Min(1000, (dot * 1000) \div abLenSq)) ELSE 1000

\* t = dot(AP, AB) / |AB|^2, taken as 0 for a branch of no length, clamped to [0, 1]
Projection(dot, abLenSq) ==
    IF abLenSq > 0 THEN Max(0, Min(1000, (dot * 1000) \div abLenSq)) ELSE 0

ProjectT(b, w) ==
    Projection(Dot(VSub(w, b.start), VSub(b.end, b.start)),
               VLengthSq(VSub(b.end, b.start)))

\* const rAtT = rStart + t * (rEnd - rStart)
RadiusAt(b, t) == b.startRadius + (t * (b.endRadius - b.startRadius)) \div 1000

\* the closest point of the segment: a + t * ab
ClosestPoint(b, t) ==
    <<b.start[1] + (t * (b.end[1] - b.start[1])) \div 1000,
      b.start[2] + (t * (b.end[2] - b.start[2])) \div 1000,
      b.start[3] + (t * (b.end[3] - b.start[3])) \div 1000>>

\* const coneDist = dist - rAtT
ConeDist(b, w, t) == ISqrt(VDistSq(w, ClosestPoint(b, t))) - RadiusAt(b, t)

\* const localMargin = Math.max(rAtT * 2, voxelSize * 2)
LocalMargin(b, t, voxelSize) == Max(RadiusAt(b, t) * 2, voxelSize * 2)

\* falloff = normalized <= 0 ? 1 : (1 - normalized) * (1 - normalized)
FalloffOf(normalized) ==
    IF normalized <= 0 THEN 1000 ELSE Mil(1000 - normalized, 1000 - normalized)

\* normalized = coneDist / localMargin, and its falloff
Falloff(coneDist, localMargin) == FalloffOf((coneDist * 1000) \div localMargin)

\* the store without the comparison: the last write stays
StoreLast(old, val) == val

\* if (val > field[idx]) field[idx] = val
StoreMax(old, val) == IF val > old THEN val ELSE old

\* the body of if (coneDist < localMargin) { ... } for one voxel
ConeStore(old, coneDist, localMargin, influence) ==
    IF coneDist < localMargin
    THEN StoreMax(old, influence * Falloff(coneDist, localMargin))
    ELSE old

ConeWrite(old, b, w, t, voxelSize, influence) ==
    ConeStore(old, ConeDist(b, w, t), LocalMargin(b, t, voxelSize), influence)

\* the body of the innermost loop for the voxel at world position w
VoxelWrite(old, b, w, voxelSize, influence) ==
    ConeWrite(old, b, w, ProjectT(b, w), voxelSize, influence)

\* const margin = Math.max(maxR * 2, voxelSize * 2)
BoxMargin(b, voxelSize) == Max(Max(b.startRadius, b.endRadius) * 2, voxelSize * 2)

\* Math.max(0, Math.floor((min - margin + halfSize) / voxelSize)) on axis c
IndexLo(p, q, c, margin, voxelSize, halfSize) ==
    Max(0, FloorDiv(Min(p[c], q[c]) - margin + halfSize, voxelSize))

\* the upper index without the limit
IndexHiUnclamped(p, q, c, margin, resolution, voxelSize, halfSize) ==
    CeilDiv(Max(p[c], q[c]) + margin + halfSize, voxelSize)

\* Math.min(limit, Math.ceil((max + margin + halfSize) / voxelSize)) on axis c
IndexHi(p, q, c, margin, resolution, voxelSize, halfSize) ==
    Min(resolution - 1, CeilDiv(Max(p[c], q[c]) + margin + halfSize, voxelSize))

\* the grid indices ix0..ix1, iy0..iy1, iz0..iz1 of a box around p and q
IndexBox(p, q, margin, resolution, voxelSize, halfSize) ==
    [lo |-> [c \in 1..3 |-> IndexLo(p, q, c, margin, voxelSize, halfSize)],
     hi |-> [c \in 1..3 |-> IndexHi(p, q, c, margin, resolution, voxelSize, halfSize)]]

\* the three nested loops reach the voxel (ix, iy, iz)
Visited(box, ix, iy, iz) ==
    /\ box.lo[1] <= ix /\ ix <= box.hi[1]
    /\ box.lo[2] <= iy /\ iy <= box.hi[2]
    /\ box.lo[3] <= iz /\ iz <= box.hi[3]

\* the voxel with index idx after the loops of one branch
FillVoxel(old, b, box, ix, iy, iz, voxelSize, halfSize, influence) ==
    IF Visited(box, ix, iy, iz)
    THEN VoxelWrite(old, b, <<World(ix, voxelSize, halfSize), World(iy, voxelSize, halfSize),
                              World(iz, voxelSize, halfSize)>>, voxelSize, influence)
    ELSE old

\* the loops over the box, element by element: the indices are within
\* 0 .. resolution - 1, so that idx = ix + iy * resolution + iz * resolution^2
\* is written from the voxel (idx % resolution, ...) and from no other
FillBox(field, b, box, resolution, voxelSize, halfSize, influence) ==
    [idx \in DOMAIN field |->
        FillVoxel(field[idx], b, box, idx % resolution, (idx \div resolution) % resolution,
                  idx \div (resolution * resolution), voxelSize, halfSize, influence)]

\* the values of ix, iy and iz in the iterations of the three nested loops
LoopCoordinates(box) ==
    IF \E c \in 1..3 : box.lo[c] > box.hi[c] THEN {}
    ELSE UNION {box.lo[c]..box.hi[c] : c \in 1..3}

\* const idx = ix + iyOff + izOff, in all iterations of the three nested loops
LoopIndices(box, resolution) ==
    {ix + iy * resolution + iz * resolution * resolution :
        ix \in box.lo[1]..box.hi[1], iy \in box.lo[2]..box.hi[2], iz \in box.lo[3]..box.hi[3]}

\* the box of the loops of one branch
BranchBox(b, resolution, voxelSize, halfSize) ==
    IndexBox(b.start, b.end, BoxMargin(b, voxelSize), resolution, voxelSize, halfSize)

\* one iteration of for (const branch of branches)
FillBranch(field, b, resolution, voxelSize, halfSize, influence) ==
    FillBox(field, b, BranchBox(b, resolution, voxelSize, halfSize),
            resolution, voxelSize, halfSize, influence)

RECURSIVE FillFrom(_, _, _, _, _, _, _)
\* the iterations from branch k on
FillFrom(field, branches, k, resolution, voxelSize, halfSize, influence) ==
    After(field,
          IF k > Len(branches) THEN field
          ELSE FillFrom(FillBranch(field, branches[k], resolution, voxelSize, halfSize,
                                   influence),
                        branches, k + 1, resolution, voxelSize, halfSize, influence))

\* field.fill(0)
Cleared(field) == [idx \in DOMAIN field |-> 0]

FillDistanceField(branches, field, resolution, mcSize, influence) ==
    FillFrom(Cleared(field), branches, 1, resolution, mcSize \div resolution, mcSize \div 2,
             influence)

\* ------------------------------------------------------------------------
\* fillJunctionSpheres: spheres added where branch end points meet
\*
\* blobiness is in tenths.  The junction map is the sequence of its entries,
\* in insertion order.
\* ------------------------------------------------------------------------

\* Math.round(n / d) for d > 0
RoundDiv(n, d) == (2 * n + d) \div (2 * d)

\* the key of a point: each coordinate rounded to a multiple of snap
SnapKey(p, snap) == <<RoundDiv(p[1], snap), RoundDiv(p[2], snap), RoundDiv(p[3], snap)>>

\* existing.maxR = Math.max(existing.maxR, r); existing.count++
Bumped(jn, r) == [jn EXCEPT !.maxR = Max(jn.maxR, r), !.count = jn.count + 1]

\* addPoint(px, py, pz, r) for a point of key key
AddKeyed(map, key, p, r) ==
    IF \E k \in 1..Len(map) : map[k].key = key
    THEN [k \in 1..Len(map) |-> IF map[k].key = key THEN Bumped(map[k], r) ELSE map[k]]
    ELSE Append(map, [key |-> key, pos |-> p, maxR |-> r, count |-> 1])

AddPoint(map, p, r, snap) == AddKeyed(map, SnapKey(p, snap), p, r)

RECURSIVE CollectFrom(_, _, _, _)
\* for (const branch of branches) { addPoint(start ...); addPoint(end ...) }
CollectFrom(map, branches, k, snap) ==
    After(map,
          IF k > Len(branches) THEN map
          ELSE CollectFrom(AddPoint(AddPoint(map, branches[k].start, branches[k].startRadius,
                                             snap),
                                    branches[k].end, branches[k].endRadius, snap),
                           branches, k + 1, snap))

\* const snap = voxelSize * 0.5
JunctionMap(branches, voxelSize) == CollectFrom(<<>>, branches, 1, voxelSize \div 2)

\* const sphereR = jn.maxR * (1 + blobiness)
SphereRadius(jn, blobiness) == (jn.maxR * (10 + blobiness)) \div 10

\* field[idx] += influence * blobiness * falloff, inside if (sphereDist < margin)
SphereStore(old, sphereDist, margin, influence, blobiness) ==
    IF sphereDist < margin
    THEN old + (influence * blobiness * Falloff(sphereDist, margin)) \div 10
    ELSE old

\* the voxel with index idx after the loops of one junction
BlendVoxel(old, jn, box, sphereR, ix, iy, iz, voxelSize, halfSize, influence, blobiness) ==
    IF Visited(box, ix, iy, iz)
    THEN SphereStore(old,
                     ISqrt(VDistSq(<<World(ix, voxelSize, halfSize),
                                     World(iy, voxelSize, halfSize),
                                     World(iz, voxelSize, halfSize)>>, jn.pos)) - sphereR,
                     Max(sphereR * 2, voxelSize * 2), influence, blobiness)
    ELSE old

BlendBox(field, jn, box, sphereR, resolution, voxelSize, halfSize, influence, blobiness) ==
    [idx \in DOMAIN field |->
        BlendVoxel(field[idx], jn, box, sphereR, idx % resolution,
                   (idx \div resolution) % resolution, idx \div (resolution * resolution),
                   voxelSize, halfSize, influence, blobiness)]

\* the box of the loops of one junction
JunctionBox(jn, sphereR, resolution, voxelSize, halfSize) ==
    IndexBox(jn.pos, jn.pos, Max(sphereR * 2, voxelSize * 2), resolution, voxelSize, halfSize)

BlendSphere(field, jn, sphereR, resolution, voxelSize, halfSize, influence, blobiness) ==
    BlendBox(field, jn, JunctionBox(jn, sphereR, resolution, voxelSize, halfSize),
             sphereR, resolution, voxelSize, halfSize, influence, blobiness)

\* the iteration without if (jn.count < 2) continue
BlendEvery(field, jn, resolution, voxelSize, halfSize, influence, blobiness) ==
    BlendSphere(field, jn, SphereRadius(jn, blobiness), resolution, voxelSize, halfSize,
                influence, blobiness)

\* one iteration of for (const jn of junctionMap.values())
BlendJunction(field, jn, resolution, voxelSize, halfSize, influence, blobiness) ==
    IF jn.count < 2 THEN field
    ELSE BlendSphere(field, jn, SphereRadius(jn, blobiness), resolution, voxelSize, halfSize,
                     influence, blobiness)

RECURSIVE BlendFrom(_, _, _, _, _, _, _, _)
BlendFrom(field, map, k, resolution, voxelSize, halfSize, influence, blobiness) ==
    After(field,
          IF k > Len(map) THEN field
          ELSE BlendFrom(BlendJunction(field, map[k], resolution, voxelSize, halfSize,
                                       influence, blobiness),
                         map, k + 1, resolution, voxelSize, halfSize, influence, blobiness))

\* if (blobiness <= 0) return; dropped
BlendAlways(branches, field, resolution, mcSize, influence, blobiness) ==
    BlendFrom(field, JunctionMap(branches, mcSize \div resolution), 1, resolution,
              mcSize \div resolution, mcSize \div 2, influence, blobiness)

FillJunctionSpheres(branches, field, resolution, mcSize, influence, blobiness) ==
    IF blobiness <= 0 THEN field
    ELSE BlendFrom(field, JunctionMap(branches, mcSize \div resolution), 1, resolution,
                   mcSize \div resolution, mcSize \div 2, influence, blobiness)

\* ------------------------------------------------------------------------
\* The Coral component: bounding box of the branches and the mesh build
\* ------------------------------------------------------------------------

Smallest(S) == CHOOSE m \in S : \A n \in S : m <= n
Largest(S) == CHOOSE m \in S : \A n \in S : m >= n

\* coordinate c of the start and end points of all branches
Coordinates(branches, c) ==
    {branches[k].start[c] : k \in 1..Len(branches)}
        \cup {branches[k].end[c] : k \in 1..Len(branches)}

\* max - min of the points on axis c
Extent(branches, c) == Largest(Coordinates(branches, c)) - Smallest(Coordinates(branches, c))

\* (min + max) / 2 on axis c
Middle(branches, c) ==
    (Smallest(Coordinates(branches, c)) + Largest(Coordinates(branches, c))) \div 2

\* the largest of Math.max(b.startRadius, b.endRadius), from 0
MaxRadius(branches) ==
    Largest({0} \cup {Max(branches[k].startRadius, branches[k].endRadius) :
                        k \in 1..Len(branches)})

\* const bounds = useMemo(...): center, mcSize and floorY
Bounds(branches) ==
    IF Len(branches) = 0 THEN [center |-> <<0, 0, 0>>, mcSize |-> 3000, floorY |-> 0]
    ELSE [center |-> <<Middle(branches, 1), Middle(branches, 2), Middle(branches, 3)>>,
          mcSize |-> Max(Max(Extent(branches, 1), Extent(branches, 2)), Extent(branches, 3))
                        + MaxRadius(branches) * 4 * 2,
          floorY |-> Smallest(Coordinates(branches, 2)) - MaxRadius(branches)]

\* const REFERENCE_SIZE = 20, in hundredths
REFERENCE_SIZE == 2000

\* Math.round(config.mcResolution * mcSize / REFERENCE_SIZE): no ceiling
ScaledResolution(mcResolution, mcSize) == RoundDiv(mcResolution * mcSize, REFERENCE_SIZE)

\* the ceiling dropped
UncappedResolution(mcResolution, mcSize) == RoundDiv(mcResolution * mcSize, REFERENCE_SIZE)

\* const actualResolution = Math.min(Math.round(...), 280)
ActualResolution(mcResolution, mcSize) == Min(ScaledResolution(mcResolution, mcSize), 280)

\* the constants of a run of the mesh build effect that passed its guard
MeshBuild(branches, mcResolution, mcSize) ==
    [mcResolution |-> mcResolution, mcSize |-> mcSize,
     actualResolution |-> ActualResolution(mcResolution, mcSize)]

\* const params = config.coralType === 1 ? config.paramsV1 : config.paramsV2
ActiveParams(coralType, paramsV1, paramsV2) == IF coralType = 1 THEN paramsV1 ELSE paramsV2

\* stage 1: generate(params), generate chosen by config.coralType
Generate(coralType, P) ==
    BranchList(IF coralType = 1 THEN GenerateTreeClassic(P, <<>>).branches
               ELSE GenerateTreeKitaoka(P, <<>>).branches)

\* the guard with branches.length === 0 dropped
GuardTriggerOnly(meshTrigger, branches) == meshTrigger = 0

\* the guard with meshTrigger === 0 dropped
GuardEmptyOnly(meshTrigger, branches) == Len(branches) = 0

\* if (meshTrigger === 0 || branches.length === 0) { ... return; }
BuildGuard(meshTrigger, branches) == meshTrigger = 0 \/ Len(branches) = 0

\* the steps of a build up to the extractor's report
ExtractSteps == <<"fillDistanceField", "fillJunctionSpheres", "blur", "update">>

\* the steps with the smoothing ahead of the displacement
PostStepsSmoothFirst(noiseAmount, smoothing) ==
    <<"trim", "weld", "normals", "scale", "normals">>
        \o (IF RoundDiv(smoothing, 1000) > 0 THEN <<"smooth">> ELSE <<>>)
        \o (IF noiseAmount > 0 THEN <<"displace">> ELSE <<>>)
        \o <<"clip", "normals">>

\* the steps that follow a report of at least one vertex, "normals" for each
\* welded.computeVertexNormals(): displacement only with noiseAmount > 0,
\* smoothing only with Math.round(smoothing) > 0
PostSteps(noiseAmount, smoothing) ==
    <<"trim", "weld", "normals", "scale", "normals">>
        \o (IF noiseAmount > 0 THEN <<"displace">> ELSE <<>>)
        \o (IF RoundDiv(smoothing, 1000) > 0 THEN <<"smooth">> ELSE <<>>)
        \o <<"clip", "normals">>

\* the post-processing also run on an empty report
StepsAlways(mcCount, noiseAmount, smoothing) ==
    ExtractSteps \o PostSteps(noiseAmount, smoothing)

\* if (!rawGeo || mcCount === 0) { ... return; }, then the post-processing
StepsOf(mcCount, noiseAmount, smoothing) ==
    IF mcCount = 0 THEN ExtractSteps ELSE ExtractSteps \o PostSteps(noiseAmount, smoothing)

\* const clipRadius = (activeParams.trunkThickness || 1) * 3
ClipRadius(P) == (IF P.trunkThickness = 0 THEN 100 ELSE P.trunkThickness) * 3

\* a run of the mesh build effect that passed its guard, the extractor
\* reporting mcCount vertices
BuildRun(branches, mcResolution, mcSize, mcCount, noiseAmount, smoothing, P) ==
    MeshBuild(branches, mcResolution, mcSize)
        @@ [mcCount |-> mcCount,
            steps |-> StepsOf(mcCount, noiseAmount, smoothing),
            clipRadius |-> ClipRadius(P)]

\* the geometry handed to setSolidGeo and setMeshGeometry: null as <<>>
BuiltGeometry(run) == IF run.mcCount = 0 THEN <<>> ELSE [count |-> run.mcCount]

\* ------------------------------------------------------------------------
\* The post-processing of the welded mesh: displaceVertices, Laplacian
\* smoothing, ground clip.  positions is the sequence of the vertices'
\* <<x, y, z>> in hundredths, normals the unit normals in thousandths, index
\* the sequence of triangles <<a, b, c>> of vertex numbers.
\* ------------------------------------------------------------------------

\* const maxDisp = voxelWorldSize * 1.5
MaxDisp(voxelWorldSize) == (voxelWorldSize * 15) \div 10

\* let maxY = 0; ... if (positions[i * 3 + 1] > maxY) maxY = ...;
\* if (maxY < 0.01) maxY = 1
HeightTop(positions) ==
    LET maxY == Largest({0} \cup {positions[i][2] : i \in DOMAIN positions})
    IN  IF maxY < 1 THEN 100 ELSE maxY

\* const heightMask = 0.3 + 0.7 * Math.max(0, wy / maxY), in thousandths
HeightMask(wy, maxY) == 300 + Mil(700, Max(0, (wy * 1000) \div maxY))

\* simplex3(...) * 0.4 + simplex3(...) * 0.35 + simplex3(...) * 0.25 for the
\* values s of the three calls, in thousandths
Octaves(s) == Mil(s[1], 400) + Mil(s[2], 350) + Mil(s[3], 250)

\* the displacement without the clamp
Unclamped(displacement, maxDisp) == displacement

\* if (displacement > maxDisp) displacement = maxDisp;
\* else if (displacement < -maxDisp) displacement = -maxDisp
Clamped(displacement, maxDisp) ==
    IF displacement > maxDisp THEN maxDisp
    ELSE IF displacement < 0 - maxDisp THEN 0 - maxDisp
    ELSE displacement

\* n * noiseAmount * heightMask, clamped; noiseAmount in thousandths, the
\* result in hundredths
Displacement(s, wy, maxY, noiseAmount, maxDisp) ==
    Clamped(Mil(Mil(Octaves(s), noiseAmount), HeightMask(wy, maxY)) \div 10, maxDisp)

\* displaceVertices(positions, normals, noiseAmount, noiseScale, voxelWorldSize):
\* simplex[i] holds the values of the three simplex3 calls made for vertex i
\* (noiseScale only chooses where the noise is sampled)
DisplaceVertices(positions, normals, noiseAmount, simplex, voxelWorldSize) ==
    [i \in DOMAIN positions |->
        VAdd(positions[i],
             VScale(normals[i],
                    Displacement(simplex[i], positions[i][2], HeightTop(positions),
                                 noiseAmount, MaxDisp(voxelWorldSize))))]

\* at least one iteration whatever the setting
AtLeastOnce(smoothing) == Max(1, RoundDiv(smoothing, 1000))

\* const smoothIters = Math.round(config.smoothing)
SmoothIters(smoothing) == RoundDiv(smoothing, 1000)

\* what one triangle adds to neighbors[i]
NeighborsIn(tri, i) ==
    (IF tri[1] = i THEN <<tri[2], tri[3]>> ELSE <<>>)
        \o (IF tri[2] = i THEN <<tri[1], tri[3]>> ELSE <<>>)
        \o (IF tri[3] = i THEN <<tri[1], tri[2]>> ELSE <<>>)

RECURSIVE Neighbors(_, _)
\* neighbors[i]: filled from the index buffer, duplicates kept
Neighbors(index, i) ==
    IF index = <<>> THEN <<>> ELSE NeighborsIn(Head(index), i) \o Neighbors(Tail(index), i)

RECURSIVE PositionSum(_, _)
\* sx, sy, sz over the neighbours ns
PositionSum(positions, ns) ==
    IF ns = <<>> THEN <<0, 0, 0>>
    ELSE VAdd(positions[Head(ns)], PositionSum(positions, Tail(ns)))

\* positions[i] * 0.5 + (s / count) * 0.5
Blend(p, s, count) ==
    <<(p[1] + s[1] \div count) \div 2, (p[2] + s[2] \div count) \div 2,
      (p[3] + s[3] \div count) \div 2>>

\* temp for vertex i: its position kept when it has no neighbours
Relaxed(positions, ns, i) ==
    IF Len(ns) = 0 THEN positions[i] ELSE Blend(positions[i], PositionSum(positions, ns), Len(ns))

\* one iteration: temp computed from positions, then positions.set(temp)
SmoothOnce(positions, index) ==
    [i \in DOMAIN positions |-> Relaxed(positions, Neighbors(index, i), i)]

RECURSIVE Smoothed(_, _, _)
\* for (let iter = 0; iter < smoothIters; iter++)
Smoothed(positions, index, smoothIters) ==
    IF smoothIters <= 0 THEN positions
    ELSE Smoothed(SmoothOnce(positions, index), index, smoothIters - 1)

\* the test without the radius
BelowBase(p, baseY, stumpX, stumpZ, clipRadius) == p[2] < baseY

\* if (y < baseY) { ...; if (dx * dx + dz * dz < clipRadiusSq) ... }
Clipped(p, baseY, stumpX, stumpZ, clipRadius) ==
    /\ p[2] < baseY
    /\ (p[1] - stumpX) * (p[1] - stumpX) + (p[3] - stumpZ) * (p[3] - stumpZ)
           < clipRadius * clipRadius

\* the ground clip with baseY = -center.y, stumpX = -center.x, stumpZ = -center.z
GroundClip(positions, center, clipRadius) ==
    [i \in DOMAIN positions |->
        IF Clipped(positions[i], 0 - center[2], 0 - center[1], 0 - center[3], clipRadius)
        THEN <<positions[i][1], 0 - center[2], positions[i][3]>>
        ELSE positions[i]]

\* ------------------------------------------------------------------------
\* Parts of the state a specification does not use
\* ------------------------------------------------------------------------

PrngIdle ==
    /\ pSeed = <<0, 0>>
    /\ pState = <<0, 0>>
    /\ pCount = 0
    /\ pDraw = <<0, 0>>

GenIdle ==
    /\ gType = 1
    /\ gParams = <<>>
    /\ gCalls = 0
    /\ gBranches = <<>>
    /\ gFirst = <<>>
    /\ gRng = <<>>

FieldIdle ==
    /\ fBranches = <<>>
    /\ fRes = 0
    /\ fSize = 0
    /\ fInfluence = 0
    /\ fBlob = 0
    /\ fField = <<>>
    /\ fPc = 0

MeshIdle ==
    /\ mType = 0
    /\ mParamsV1 = <<>>
    /\ mParamsV2 = <<>>
    /\ mResolution = 0
    /\ mSmoothing = 0
    /\ mNoise = 0
    /\ mReset = 0
    /\ mTrigger = 0
    /\ mGeometry = <<>>
    /\ mPending = FALSE
    /\ mSolid = <<>>
    /\ mRan = 0
    /\ mDeps = <<>>
    /\ mBuild = <<>>
    /\ mRun = <<>>

PostIdle ==
    /\ qPositions = <<>>
    /\ qNormals = <<>>
    /\ qIndex = <<>>
    /\ qConfig = <<>>
    /\ qBefore = <<>>
    /\ qStep = ""

WalkIdle ==
    /\ wGen = 0
    /\ wLimit = 0
    /\ wDepth = 0
    /\ wFlow = 0
    /\ wPc = ""
    /\ wNodes = 0
    /\ wI = 0
    /\ wJ = 0
    /\ wFused = {}
    /\ wExamined = <<>>

\* ------------------------------------------------------------------------
\* Specification of the seeded generator alone
\* ------------------------------------------------------------------------

MaxPrngSeed == 12
MaxDraws == 6

\* seeds as JavaScript numbers: small ones, the 32-bit extremes, -1 and -2^31
PrngSeeds ==
    {<<0, n>> : n \in 0..MaxPrngSeed}
        \cup {<<0, 999>>, <<32767, 65535>>, <<65535, 65535>>, <<37588, 34315>>,
               <<-1, 65535>>, <<-32768, 0>>}

PrngInit ==
    /\ pSeed \in PrngSeeds
    /\ pState = MulberrySeed(pSeed)
    /\ pCount = 0
    /\ pDraw = <<0, 0>>
    /\ GenIdle
    /\ FieldIdle
    /\ MeshIdle
    /\ PostIdle
    /\ WalkIdle

\* rand()
PrngDraw ==
    /\ pCount < MaxDraws
    /\ LET r == MulberryNext(pState)
       IN  /\ pState' = r.s
           /\ pDraw' = r.u
    /\ pCount' = pCount + 1
    /\ UNCHANGED <<pSeed, genVars, fieldVars, meshVars, postVars, walkVars>>

PrngNext == PrngDraw

SpecPrng == PrngInit /\ [][PrngNext]_vars

\* (seed + k * 0x6D2B79F5) mod 2^32, computed in one step from the seed
SeedPlus(seed, k) ==
    LET lo == seed[2] + k * GoldenLo
    IN  <<(seed[1] + k * GoldenHi + lo \div H) % H, lo % H>>

\* C2: after k draws the state is (seed + k*0x6D2B79F5) mod 2^32, the constant
\* is odd, and every draw is an unsigned 32-bit integer over 2^32, so it lies
\* in [0, 1).
C2_StateAndRange ==
    /\ GoldenLo % 2 = 1
    /\ pState = SeedPlus(pSeed, pCount)
    /\ pCount >= 1 =>
          /\ pDraw = MulberryOut(SeedPlus(pSeed, pCount))
          /\ pDraw[1] \in 0..(H - 1)
          /\ pDraw[2] \in 0..(H - 1)

\* several draws were made and the state has wrapped around 2^32
C2_Witness ==
    /\ pCount >= 3
    /\ pSeed[1] >= 0
    /\ pState[1] < pSeed[1]
    /\ pDraw[1] >= 32768

\* reference values of the generator for seed 42 (draws 1 to 3)
PrngReference ==
    (pSeed = <<0, 42>>) =>
        /\ pCount = 1 => pDraw = <<39393, 61308>>
        /\ pCount = 2 => pDraw = <<29379, 11146>>
        /\ pCount = 3 => pDraw = <<55867, 12992>>

\* ------------------------------------------------------------------------
\* Specification of the branch generators: calls of one generator with one
\* parameter record, one after the other in the same process
\* ------------------------------------------------------------------------

MaxSeed == 3
MaxGenerations == 2
MaxDensity == 3
MaxCalls == 2

\* seeds of the seed slider, with the default 42
Seeds == {<<0, n>> : n \in 1..MaxSeed} \cup {<<0, 42>>}

\* parameter records of generateTreeClassic: angles in degrees, branchLength
\* and taper in thousandths, trunkThickness in hundredths, anastomosis in
\* thousandths (off, and the slider's maximum)
ClassicParams ==
    [generations : 1..MaxGenerations,
     branchAngle : {35},
     branchLength : {650, 1000},
     seed : Seeds,
     trunkThickness : {100},
     taper : {600},
     anastomosis : {0, 300, 800}]

\* parameter records of generateTreeKitaoka: diameterExponent in tenths,
\* asymmetry in hundredths, branchLength in thousandths
KitaokaParams ==
    [density : 2..MaxDensity,
     diameterExponent : {20, 30, 35},
     asymmetry : {15, 40},
     branchLength : {7000},
     seed : Seeds,
     trunkThickness : {100},
     anastomosis : {0, 300, 800}]

GenInit ==
    /\ gType \in {1, 2}
    /\ gParams \in IF gType = 1 THEN ClassicParams ELSE KitaokaParams
    /\ gCalls = 0
    /\ gBranches = <<>>
    /\ gFirst = <<>>
    /\ gRng = <<>>
    /\ PrngIdle
    /\ FieldIdle
    /\ MeshIdle
    /\ PostIdle
    /\ WalkIdle

\* the call returns out: the list, and with it the state its closure ended with
Return(out) ==
    /\ gBranches' = out.branches
    /\ gRng' = out.rng
    /\ gFirst' = IF gCalls = 0 THEN out.branches ELSE gFirst
    /\ gCalls' = gCalls + 1
    /\ UNCHANGED <<gType, gParams, prngVars, fieldVars, meshVars, postVars, walkVars>>

\* a call generateTreeClassic(params)
CallClassic ==
    /\ gType = 1
    /\ gCalls < MaxCalls
    /\ Return(GenerateTreeClassic(gParams, gRng))

\* a call generateTreeKitaoka(params)
CallKitaoka ==
    /\ gType = 2
    /\ gCalls < MaxCalls
    /\ Return(GenerateTreeKitaoka(gParams, gRng))

GenNext == CallClassic \/ CallKitaoka

SpecGen == GenInit /\ [][GenNext]_vars

\* ------------------------------------------------------------------------
\* Specification of the generators' calls that run the anastomosis pass
\* ------------------------------------------------------------------------

\* if (anastomosis > 0) holds in every call
ScanInit ==
    /\ GenInit
    /\ gParams.anastomosis > 0

SpecScan == ScanInit /\ [][GenNext]_vars

\* ------------------------------------------------------------------------
\* Specification of the generators' defaults: a call with one parameter
\* absent, then the call with that parameter set to its documented default
\* ------------------------------------------------------------------------

\* DEFAULT_V1_PARAMS
DEFAULT_V1_PARAMS ==
    [generations |-> 4, branchAngle |-> 35, branchLength |-> 650, seed |-> <<0, 42>>,
     trunkThickness |-> 100, taper |-> 600, anastomosis |-> 300]

\* DEFAULT_V2_PARAMS
DEFAULT_V2_PARAMS ==
    [density |-> 4, diameterExponent |-> 28, asymmetry |-> 15, branchLength |-> 7000,
     seed |-> <<0, 42>>, trunkThickness |-> 100, anastomosis |-> 300]

\* the record params without the property key
Without(params, key) == [k \in DOMAIN params \ {key} |-> params[k]]

\* the record params with the properties of patch put over it
With(params, patch) ==
    [k \in DOMAIN params \cup DOMAIN patch |-> IF k \in DOMAIN patch THEN patch[k] ELSE params[k]]

\* the documented defaults of the generator of a type
Documented(type) == IF type = 1 THEN DEFAULT_V1_PARAMS ELSE DEFAULT_V2_PARAMS

\* the property a record of a generator lacks
Absent(type, params) == DOMAIN Documented(type) \ DOMAIN params

\* the complete records the calls start from
DefaultsParamsV1 ==
    [generations : {1}, branchAngle : {35}, branchLength : {650}, seed : Seeds,
     trunkThickness : {100, 150}, taper : {600}, anastomosis : {0}]

DefaultsParamsV2 ==
    [density : {2}, diameterExponent : {30}, asymmetry : {15}, branchLength : {7000},
     seed : Seeds, trunkThickness : {100, 150}, anastomosis : {0}]

DefaultsInit ==
    /\ gType \in {1, 2}
    /\ \E P \in (IF gType = 1 THEN DefaultsParamsV1 ELSE DefaultsParamsV2) :
           \E key \in DOMAIN P : gParams = Without(P, key)
    /\ gCalls = 0
    /\ gBranches = <<>>
    /\ gFirst = <<>>
    /\ gRng = <<>>
    /\ PrngIdle
    /\ FieldIdle
    /\ MeshIdle
    /\ PostIdle
    /\ WalkIdle

\* generate(params) for the generator of a type
GenerateTree(type, params, left) ==
    IF type = 1 THEN GenerateTreeClassic(params, left) ELSE GenerateTreeKitaoka(params, left)

\* the call with the parameter absent
CallAbsent ==
    /\ gCalls = 0
    /\ Return(GenerateTree(gType, gParams, gRng))

\* the call with the parameter set to its documented default
CallDocumented ==
    /\ gCalls = 1
    /\ \E key \in Absent(gType, gParams) :
           Return(GenerateTree(gType, With(gParams, [k \in {key} |-> Documented(gType)[k]]), gRng))

DefaultsNext == CallAbsent \/ CallDocumented

SpecDefaults == DefaultsInit /\ [][DefaultsNext]_vars

\* ------------------------------------------------------------------------
\* Specification of the field: fillDistanceField, then fillJunctionSpheres,
\* as the mesh build calls them
\* ------------------------------------------------------------------------

MaxBranches == 2
FieldRes == 8

\* const INFLUENCE = 100
INFLUENCE == 100

\* const isolation = 150 - config.mcThickness * 1.4, in thousandths as the
\* values of the field are
Isolation(mcThickness) == 150000 - 1400 * mcThickness

\* a branch of the field's input: only the program's fields are read
Cone(start, end, startRadius, endRadius, depth) ==
    Branch(start, end, startRadius, endRadius, depth, 0, <<>>, 0, 1, 1)

\* branches to draw lists from: a thick stump near the grid's corner, a thin
\* branch, a tapered one that starts where the thin one starts, and a tapered
\* one of no length
FieldBranches ==
    {Cone(<<-200, -300, -200>>, <<-200, -100, -200>>, 150, 150, 0),
     Cone(<<0, 0, 0>>, <<100, 200, 0>>, 30, 20, 1),
     Cone(<<0, 0, 0>>, <<200, -100, 100>>, 120, 40, 1),
     Cone(<<100, 100, 100>>, <<100, 100, 100>>, 50, 30, 1)}

RECURSIVE ListsOf(_, _)
\* the lists of exactly n elements of S
ListsOf(S, n) ==
    IF n = 0 THEN {<<>>} ELSE {Append(l, x) : l \in ListsOf(S, n - 1), x \in S}

FieldBranchLists == UNION {ListsOf(FieldBranches, n) : n \in 0..MaxBranches}

\* widths of a voxel; mcSize is resolution times the width
VoxelWidths == {100, 50}

\* blobiness in tenths: the slider's 0 and 1.0, and a negative number
Blobs == {-5, 0, 10}

\* what the array holds before the calls
Stale == {0, 7000}

FieldInit ==
    /\ fBranches \in FieldBranchLists
    /\ fRes = FieldRes
    /\ fSize \in {FieldRes * w : w \in VoxelWidths}
    /\ fInfluence = INFLUENCE
    /\ fBlob = 0
    /\ fField \in {[idx \in 0..(FieldRes * FieldRes * FieldRes - 1) |-> v] : v \in Stale}
    /\ fPc = 0
    /\ PrngIdle
    /\ GenIdle
    /\ MeshIdle
    /\ PostIdle
    /\ WalkIdle

\* fillDistanceField(shiftedBranches, field, actualResolution, mcSize, INFLUENCE)
CallFillDistanceField ==
    /\ fPc = 0
    /\ fField' = FillDistanceField(fBranches, fField, fRes, fSize, fInfluence)
    /\ fPc' = 1
    /\ UNCHANGED <<fBranches, fRes, fSize, fInfluence, fBlob, prngVars, genVars, meshVars, postVars, walkVars>>

\* fillJunctionSpheres(shiftedBranches, field, actualResolution, mcSize, INFLUENCE,
\* config.blobiness)
CallFillJunctionSpheres ==
    /\ fPc = 1
    /\ \E blobiness \in Blobs :
        /\ fBlob' = blobiness
        /\ fField' = FillJunctionSpheres(fBranches, fField, fRes, fSize, fInfluence, blobiness)
    /\ fPc' = 2
    /\ UNCHANGED <<fBranches, fRes, fSize, fInfluence, prngVars, genVars, meshVars, postVars, walkVars>>

FieldNext == CallFillDistanceField \/ CallFillJunctionSpheres

SpecField == FieldInit /\ [][FieldNext]_vars

\* ------------------------------------------------------------------------
\* Specification of the two field functions on branches at and beyond the
\* faces of the grid cube
\* ------------------------------------------------------------------------

\* a branch inside the cube, three that cross its faces (two of them starting
\* less than a quarter of a voxel apart), and three that lie beyond it (two of
\* them starting at one point)
GridBranches ==
    {Cone(<<0, 0, 0>>, <<100, 200, 0>>, 30, 20, 1),
     Cone(<<-200, -300, -200>>, <<-200, -100, -200>>, 150, 150, 0),
     Cone(<<-190, -310, -200>>, <<-300, -300, -100>>, 100, 60, 1),
     Cone(<<300, 300, 300>>, <<500, 400, 300>>, 80, 50, 1),
     Cone(<<900, 900, 900>>, <<900, 1000, 900>>, 30, 30, 1),
     Cone(<<900, 900, 900>>, <<1000, 900, 900>>, 30, 20, 1),
     Cone(<<0, -900, 0>>, <<0, -800, 0>>, 30, 30, 1)}

\* lists of one branch and of two
GridBranchLists == {<<a>> : a \in GridBranches} \cup {<<a, b>> : a, b \in GridBranches}

GridInit ==
    /\ fBranches \in GridBranchLists
    /\ fRes = FieldRes
    /\ fSize \in {FieldRes * w : w \in VoxelWidths}
    /\ fInfluence = INFLUENCE
    /\ fBlob = 0
    /\ fField = [idx \in 0..(FieldRes * FieldRes * FieldRes - 1) |-> 0]
    /\ fPc = 0
    /\ PrngIdle
    /\ GenIdle
    /\ MeshIdle
    /\ PostIdle
    /\ WalkIdle

SpecGrid == GridInit /\ [][FieldNext]_vars

\* ------------------------------------------------------------------------
\* Specification of the mesh build: the store's actions and the two effects
\* of the Coral component (stage 1 generates the tree, stage 2 builds the
\* mesh).  A commit runs the effects whose dependencies have changed since
\* they last ran, stage 1 before stage 2, both with the state of the render
\* they belong to.  The component mounts after the controls, so one store
\* action may precede its first render.
\* ------------------------------------------------------------------------

MaxTriggers == 2
MaxRuns == 1

\* values of the Detail slider: its ends and the default
Resolutions == {200, 300}

\* seeds: Math.floor(Math.random() * 999) + 1
MeshSeeds == {<<0, 1>>, <<0, 42>>}

\* the seed drawn when the store is created
InitialSeeds == {<<0, 42>>}

\* the store's parameter records at start, with the generation count and the
\* density at the low end of their sliders
\* trunk thicknesses: the default and a thicker one
Thicknesses == {100, 200}

\* the parameter records the store holds, with the generation count and the
\* density at the low end of their sliders
MeshParamsV1 ==
    [generations : {2}, branchAngle : {35}, branchLength : {650}, seed : MeshSeeds,
     trunkThickness : Thicknesses, taper : {600}, anastomosis : {0}]

MeshParamsV2 ==
    [density : {2}, diameterExponent : {30}, asymmetry : {15}, branchLength : {7000},
     seed : MeshSeeds, trunkThickness : Thicknesses, anastomosis : {0}]

\* setParam(key, value) calls
ParamEdits == {"trunkThickness"} \X Thicknesses

\* the branch list of every generator call the store's records allow,
\* computed once
GeneratorCalls == ({1} \X MeshParamsV1) \cup ({2} \X MeshParamsV2)

Trees == Tabulated([call \in GeneratorCalls |-> Generate(call[1], call[2])])

\* the component's branch list: [] at first, then the result of the latest
\* generator call
Branches(run) == IF run = <<>> THEN <<>> ELSE Trees[<<run.coralType, run.params>>]

\* vertex counts the extractor reports
VertexCounts == {0, 3}

MeshInit ==
    /\ mType = 1
    /\ \E seed \in InitialSeeds :
        /\ mParamsV1 \in {P \in MeshParamsV1 : P.seed = seed /\ P.trunkThickness = 100}
        /\ mParamsV2 \in {P \in MeshParamsV2 : P.seed = seed /\ P.trunkThickness = 100}
    /\ mResolution = 200
    /\ mSmoothing = 0
    /\ mNoise = 500
    /\ mReset = 0
    /\ mTrigger = 0
    /\ mGeometry = <<>>
    /\ mPending = FALSE
    /\ mSolid = <<>>
    /\ mRan = -1
    /\ mDeps = <<>>
    /\ mBuild = <<>>
    /\ mRun = <<>>
    /\ PrngIdle
    /\ GenIdle
    /\ FieldIdle
    /\ PostIdle
    /\ WalkIdle

\* a store action: each is taken in an event of its own, and the component
\* renders and runs its effects before the next event is handled
Batched ==
    /\ ~mPending
    /\ mPending' = TRUE

\* setCoralType(type)
SetCoralType ==
    /\ Batched
    /\ \E type \in {1, 2} : mType' = type
    /\ UNCHANGED <<mParamsV1, mParamsV2, mResolution, mSmoothing, mNoise, mReset, mTrigger,
                   mGeometry, componentVars, prngVars, genVars, fieldVars, postVars, walkVars>>

\* setParam(key, value): the record of the active type gets the value
SetParam ==
    /\ Batched
    /\ \E e \in ParamEdits :
        /\ mParamsV1' = IF mType = 1 THEN [mParamsV1 EXCEPT ![e[1]] = e[2]] ELSE mParamsV1
        /\ mParamsV2' = IF mType = 1 THEN mParamsV2 ELSE [mParamsV2 EXCEPT ![e[1]] = e[2]]
    /\ UNCHANGED <<mType, mResolution, mSmoothing, mNoise, mReset, mTrigger, mGeometry,
                   componentVars, prngVars, genVars, fieldVars, postVars, walkVars>>

\* setRenderParam({ mcResolution: v }), ({ smoothing: v }), ({ noiseAmount: v })
SetRenderParam ==
    /\ Batched
    /\ \/ (\E v \in Resolutions : mResolution' = v) /\ UNCHANGED <<mSmoothing, mNoise>>
       \/ (\E v \in {0, 2000} : mSmoothing' = v) /\ UNCHANGED <<mResolution, mNoise>>
       \/ (\E v \in {0, 500} : mNoise' = v) /\ UNCHANGED <<mResolution, mSmoothing>>
    /\ UNCHANGED <<mType, mParamsV1, mParamsV2, mReset, mTrigger, mGeometry,
                   componentVars, prngVars, genVars, fieldVars, postVars, walkVars>>

\* resetSimulation(): a new seed for the active type, the mesh cleared
ResetSimulation ==
    /\ mReset < MaxRuns
    /\ Batched
    /\ \E newSeed \in MeshSeeds :
        /\ mParamsV1' = IF mType = 1 THEN [mParamsV1 EXCEPT !.seed = newSeed] ELSE mParamsV1
        /\ mParamsV2' = IF mType = 1 THEN mParamsV2 ELSE [mParamsV2 EXCEPT !.seed = newSeed]
    /\ mReset' = mReset + 1
    /\ mTrigger' = 0
    /\ mGeometry' = <<>>
    /\ UNCHANGED <<mType, mResolution, mSmoothing, mNoise, componentVars, prngVars, genVars,
                   fieldVars, postVars, walkVars>>

\* triggerMesh()
TriggerMesh ==
    /\ mTrigger < MaxTriggers
    /\ Batched
    /\ mTrigger' = mTrigger + 1
    /\ UNCHANGED <<mType, mParamsV1, mParamsV2, mResolution, mSmoothing, mNoise, mReset,
                   mGeometry, componentVars, prngVars, genVars, fieldVars, postVars, walkVars>>

\* the dependency list of stage 2, as far as the store is modelled
BuildDeps == <<mTrigger, mResolution, mSmoothing, mNoise>>

\* stage 1 of a commit: setBranches(generate(params)); setSolidGeo(null)
\* when resetTrigger has changed
Stage1 ==
    /\ mRan' = mReset
    /\ mRun' = IF mRan # mReset
               THEN [coralType |-> mType, params |-> ActiveParams(mType, mParamsV1, mParamsV2)]
               ELSE mRun

\* what stage 2 leaves when it runs and the extractor reports mcCount vertices
Stage2Build(mcCount) ==
    /\ mBuild' = BuildRun(Branches(mRun), mResolution, Bounds(Branches(mRun)).mcSize, mcCount,
                          mNoise, mSmoothing, ActiveParams(mType, mParamsV1, mParamsV2))
    /\ mSolid' = BuiltGeometry(mBuild')
    /\ mGeometry' = BuiltGeometry(mBuild')

\* stage 2 of a commit, with the branches of the render the commit belongs to
Stage2 ==
    /\ mDeps' = BuildDeps
    /\ IF mDeps = BuildDeps
       THEN /\ mSolid' = IF mRan # mReset THEN <<>> ELSE mSolid
            /\ UNCHANGED <<mBuild, mGeometry>>
       ELSE IF BuildGuard(mTrigger, Branches(mRun))
            THEN /\ mBuild' = <<>>
                 /\ mSolid' = <<>>
                 /\ mGeometry' = <<>>
            ELSE \E mcCount \in VertexCounts : Stage2Build(mcCount)

\* the component renders and commits: the effects whose dependencies have
\* changed run
Commit ==
    /\ mPending \/ mRan # mReset
    /\ mPending' = FALSE
    /\ Stage1
    /\ Stage2
    /\ UNCHANGED <<mType, mParamsV1, mParamsV2, mResolution, mSmoothing, mNoise, mReset, mTrigger,
                   prngVars, genVars, fieldVars, postVars, walkVars>>

MeshNext ==
    \/ SetCoralType
    \/ SetParam
    \/ SetRenderParam
    \/ ResetSimulation
    \/ TriggerMesh
    \/ Commit

SpecMesh == MeshInit /\ [][MeshNext]_vars

\* ------------------------------------------------------------------------
\* Specification of the post-processing of one build: steps 4 to 6 of the
\* mesh build effect on a welded mesh, in the effect's order
\* ------------------------------------------------------------------------

MaxIters == 2

\* welded meshes: vertices above and below the base, inside, on and outside
\* the clip radius
PostMeshes ==
    { [positions |-> << <<0, -50, 0>>, <<100, 0, 0>>, <<0, 120, 100>>, <<300, -80, 0>> >>,
       normals |-> << <<0, -1000, 0>>, <<1000, 0, 0>>, <<0, 600, 800>>, <<600, -800, 0>> >>,
       index |-> << <<1, 2, 3>>, <<1, 3, 4>> >>],
      [positions |-> << <<-20, -10, 0>>, <<30, -40, 10>>, <<0, 0, -250>> >>,
       normals |-> << <<-1000, 0, 0>>, <<0, -1000, 0>>, <<0, 0, -1000>> >>,
       index |-> << <<1, 2, 3>> >>] }

\* config.noiseAmount, in thousandths
NoiseAmounts == {0, 50, 5000}

\* mcSize / actualResolution, in hundredths
VoxelWorldSizes == {6, 20}

\* config.smoothing, in thousandths
Smoothings == {0, 400} \cup {1000 * k : k \in 1..MaxIters}

\* the centre of the tree's bounding box
Centers == {<<0, 0, 0>>, <<10, 60, -20>>}

\* the values the three simplex3 calls of a vertex return, in thousandths
SimplexValues == {<<1000, 1000, 1000>>, <<-1000, -1000, -1000>>, <<300, -200, 100>>}

PostInit ==
    /\ \E mesh \in PostMeshes :
        /\ qPositions = mesh.positions
        /\ qNormals = mesh.normals
        /\ qIndex = mesh.index
    /\ qConfig \in [noiseAmount : NoiseAmounts, voxelWorldSize : VoxelWorldSizes,
                    smoothing : Smoothings, trunkThickness : Thicknesses, center : Centers]
    /\ qBefore = <<>>
    /\ qStep = "scale"
    /\ PrngIdle
    /\ GenIdle
    /\ FieldIdle
    /\ MeshIdle
    /\ WalkIdle

\* the positions of step are those the step before left
Step(before, step) ==
    /\ qStep = before
    /\ qStep' = step
    /\ qBefore' = qPositions
    /\ UNCHANGED <<qNormals, qIndex, qConfig, prngVars, genVars, fieldVars, meshVars, walkVars>>

\* 4. if (config.noiseAmount > 0) displaceVertices(...)
StepDisplace ==
    /\ Step("scale", "displace")
    /\ \E simplex \in [DOMAIN qPositions -> SimplexValues] :
        qPositions' = IF qConfig.noiseAmount > 0
                      THEN DisplaceVertices(qPositions, qNormals, qConfig.noiseAmount, simplex,
                                            qConfig.voxelWorldSize)
                      ELSE qPositions

\* 5. if (smoothIters > 0 && welded.index) { ... }: mergeVertices always
\* returns an index
StepSmooth ==
    /\ Step("displace", "smooth")
    /\ qPositions' = IF SmoothIters(qConfig.smoothing) > 0
                     THEN Smoothed(qPositions, qIndex, SmoothIters(qConfig.smoothing))
                     ELSE qPositions

\* 6. the ground clip
StepClip ==
    /\ Step("smooth", "clip")
    /\ qPositions' = GroundClip(qPositions, qConfig.center, ClipRadius(qConfig))

PostNext == StepDisplace \/ StepSmooth \/ StepClip

SpecPost == PostInit /\ [][PostNext]_vars

\* ------------------------------------------------------------------------
\* Specification of the generators' control flow: one path of calls of
\* recurse from a primary down to a leaf (each call either returns or calls
\* itself for its 2 or 3 children, of which the path follows any one), then
\* the two loops of the anastomosis pass over nodes.length nodes
\* ------------------------------------------------------------------------

MaxWalkGenerations == 3
MaxNodes == 4

\* no path is followed deeper than this
DepthBudget == 24

\* density: the slider's ends
WalkDensities == {2, 8}

\* flow fractions of a child, in thousandths: the two sides of the most
\* uneven binary split (asymmetry 0.4) and an even one
WalkFractions == {100, 500, 900}

\* flows of a primary, in millionths
PrimaryFlowValues == {120000, 200000}

WalkInit ==
    /\ wGen \in {1, 2}
    /\ wLimit \in IF wGen = 1 THEN 1..MaxWalkGenerations
                  ELSE {FlowThreshold(density) : density \in WalkDensities}
    /\ wDepth = 1
    /\ wFlow \in IF wGen = 1 THEN {0} ELSE PrimaryFlowValues
    /\ wPc = "recurse"
    /\ wNodes = 0
    /\ wI = 0
    /\ wJ = 0
    /\ wFused = {}
    /\ wExamined = <<>>
    /\ PrngIdle
    /\ GenIdle
    /\ FieldIdle
    /\ MeshIdle
    /\ PostIdle

\* the test that ends the recursion in a call of recurse
Leaf == IF wGen = 1 THEN ClassicLeaf(wDepth, wLimit) ELSE KitaokaLeaf(wFlow, wLimit, wDepth)

\* a call of recurse that returns after pushing its branch
RecurseReturn ==
    /\ wPc = "recurse"
    /\ Leaf
    /\ wPc' = "leaf"
    /\ UNCHANGED <<wGen, wLimit, wDepth, wFlow, wNodes, wI, wJ, wFused, wExamined>>
    /\ UNCHANGED <<prngVars, genVars, fieldVars, meshVars, postVars>>

\* a call of recurse that calls recurse for a child: depth + 1, f * flow
RecurseChild ==
    /\ wPc = "recurse"
    /\ ~Leaf
    /\ wDepth < DepthBudget
    /\ wDepth' = wDepth + 1
    /\ \E f \in WalkFractions : wFlow' = IF wGen = 1 THEN 0 ELSE Mil(wFlow, f)
    /\ UNCHANGED <<wGen, wLimit, wPc, wNodes, wI, wJ, wFused, wExamined>>
    /\ UNCHANGED <<prngVars, genVars, fieldVars, meshVars, postVars>>

\* the recursion has returned; if (anastomosis > 0) the pass starts over the
\* nodes, one per branch pushed so far
StartScan ==
    /\ wPc = "leaf"
    /\ \/ wPc' = "done" /\ wNodes' = 0
       \/ wPc' = "outer" /\ wNodes' \in 2..MaxNodes
    /\ wDepth' = 0
    /\ wFlow' = 0
    /\ UNCHANGED <<wGen, wLimit, wI, wJ, wFused, wExamined>>
    /\ UNCHANGED <<prngVars, genVars, fieldVars, meshVars, postVars>>

\* for (let i = 0; i < nodes.length; i++) { if (fused.has(i)) continue; ...
ScanOuter ==
    /\ wPc = "outer"
    /\ IF wI >= wNodes THEN wPc' = "done" /\ UNCHANGED <<wI, wJ>>
       ELSE IF wI \in wFused THEN wI' = wI + 1 /\ UNCHANGED <<wPc, wJ>>
       ELSE wPc' = "inner" /\ wJ' = wI + 1 /\ UNCHANGED wI
    /\ UNCHANGED <<wGen, wLimit, wDepth, wFlow, wNodes, wFused, wExamined>>
    /\ UNCHANGED <<prngVars, genVars, fieldVars, meshVars, postVars>>

\* for (let j = i + 1; j < nodes.length; j++) { if (fused.has(j)) continue;
\* ...; if (rand() < chance) { ...; fused.add(i); fused.add(j); break; } }:
\* the pair is examined and either passed over (out of the distance band, or
\* the draw not below the chance) or fused
ScanInner ==
    /\ wPc = "inner"
    /\ IF wJ >= wNodes
       THEN wPc' = "outer" /\ wI' = wI + 1 /\ UNCHANGED <<wJ, wFused, wExamined>>
       ELSE IF wJ \in wFused
       THEN wJ' = wJ + 1 /\ UNCHANGED <<wPc, wI, wFused, wExamined>>
       ELSE /\ wExamined' = Append(wExamined, <<wI, wJ>>)
            /\ \/ wJ' = wJ + 1 /\ UNCHANGED <<wPc, wI, wFused>>
               \/ /\ wFused' = wFused \cup {wI, wJ}
                  /\ wPc' = "outer"
                  /\ wI' = wI + 1
                  /\ UNCHANGED wJ
    /\ UNCHANGED <<wGen, wLimit, wDepth, wFlow, wNodes>>
    /\ UNCHANGED <<prngVars, genVars, fieldVars, meshVars, postVars>>

WalkNext == RecurseReturn \/ RecurseChild \/ StartScan \/ ScanOuter \/ ScanInner

SpecWalk == WalkInit /\ [][WalkNext]_vars

\* the generator runs on: no step that can be taken is put off for ever
SpecWalkFair == SpecWalk /\ WF_vars(WalkNext)

\* C1: two calls of one generator with equal inputs, made one after the other,
\* return branch lists that are equal element by element (length, start, end,
\* startRadius, endRadius and depth at each index).
C1_Deterministic ==
    gCalls >= 2 => BranchList(gBranches) = BranchList(gFirst)

\* a second call has returned a tree that holds fused branches
C1_Witness ==
    /\ gCalls >= 2
    /\ Len(gBranches) >= 16
    /\ \E k \in 1..Len(gBranches) : gBranches[k].pair # <<>>

\* indices of the branches the recursion pushed, and of the fused ones
TreeBranches(bs) == {k \in 1..Len(bs) : bs[k].pair = <<>>}
FusedBranches(bs) == {k \in 1..Len(bs) : bs[k].pair # <<>>}

\* the branches pushed by the calls a branch's own call made
ChildrenOf(bs, k) == {c \in TreeBranches(bs) : bs[c].parent = k}

\* C3: after the anastomosis pass no node index is an endpoint of more than
\* one fused branch (a node index is the index of a tree branch).
C3_FusedOnce ==
    gCalls >= 1 =>
        \A a \in FusedBranches(gBranches) :
            /\ gBranches[a].pair[1] \in TreeBranches(gBranches)
            /\ gBranches[a].pair[2] \in TreeBranches(gBranches)
            /\ \A b \in FusedBranches(gBranches) \ {a} :
                   {gBranches[a].pair[1], gBranches[a].pair[2]}
                       \cap {gBranches[b].pair[1], gBranches[b].pair[2]} = {}

\* generateTreeClassic has returned two fused branches or more, the scan of
\* the second one's first node having passed the first one's second node
C3_Witness ==
    /\ gType = 1
    /\ gCalls >= 1
    /\ \E a, b \in FusedBranches(gBranches) :
           /\ gBranches[a].pair[1] < gBranches[b].pair[1]
           /\ gBranches[b].pair[1] < gBranches[a].pair[2]
           /\ gBranches[a].pair[2] < gBranches[b].pair[2]

RECURSIVE SumOver(_, _, _)
\* the sum of the field named by which over the branches bs[k], k in S
SumOver(bs, S, which) ==
    IF S = {} THEN 0
    ELSE LET k == CHOOSE x \in S : TRUE
         IN  (IF which = "num" THEN bs[k].num ELSE bs[k].flow)
                 + SumOver(bs, S \ {k}, which)

\* C4: in generateTreeKitaoka, at the stump fan-out and at every branching
\* event (2 or 3 children), each child's flow fraction lies in [0, 1], the
\* fractions sum to 1, each child's flow is its fraction of the parent's flow
\* and does not exceed it, and the children's flows sum to the parent's flow
\* (flows being kept in whole millionths, rounded down, the sum falls short
\* by less than one millionth per child).
C4_FlowFractions ==
    (gType = 2 /\ gCalls >= 1) =>
        \A k \in TreeBranches(gBranches) :
            LET ch == ChildrenOf(gBranches, k)
                n == Cardinality(ch)
            IN  ch # {} =>
                    /\ IF k = 1 THEN n \in 5..7 ELSE n \in 2..3
                    /\ \A c \in ch :
                           /\ gBranches[c].den > 0
                           /\ gBranches[c].num >= 0
                           /\ gBranches[c].num <= gBranches[c].den
                           /\ \A d \in ch : gBranches[d].den = gBranches[c].den
                           /\ SumOver(gBranches, ch, "num") = gBranches[c].den
                           /\ gBranches[c].flow =
                                  MulDiv(gBranches[k].flow, gBranches[c].num, gBranches[c].den)
                           /\ gBranches[c].flow <= gBranches[k].flow
                    /\ SumOver(gBranches, ch, "flow") <= gBranches[k].flow
                    /\ SumOver(gBranches, ch, "flow") > gBranches[k].flow - n

\* generateTreeKitaoka has returned a tree with a binary and a ternary
\* branching event below the fan-out, the binary one uneven
C4_Witness ==
    /\ gType = 2
    /\ gCalls >= 1
    /\ \E k, m \in TreeBranches(gBranches) \ {1} :
           /\ Cardinality(ChildrenOf(gBranches, k)) = 2
           /\ \E c, d \in ChildrenOf(gBranches, k) : gBranches[c].num > gBranches[d].num
           /\ Cardinality(ChildrenOf(gBranches, m)) = 3

\* C5: generateTreeClassic with generations = 2 and anastomosis = 0 returns
\* one stump at index 0 with depth 0, P primaries of depth 1 with P in
\* {5, 6, 7} and for each primary 2 or 3 children of depth 2, nothing deeper
\* and nothing fused; the total is 1 + P + the child counts, between 16 and
\* 29, and the same on a re-run.
C5_TwoGenerations ==
    (gType = 1 /\ gParams.generations = 2 /\ gParams.anastomosis = 0 /\ gCalls >= 1) =>
        LET bs == gBranches
            all == 1..Len(bs)
            primaries == {k \in all : bs[k].depth = 1}
            children == {k \in all : bs[k].depth = 2}
        IN  /\ FusedBranches(bs) = {}
            /\ bs[1].depth = 0
            /\ \A k \in all \ {1} : bs[k].depth \in 1..2
            /\ Cardinality(primaries) \in 5..7
            /\ \A q \in primaries :
                   /\ bs[q].parent = 1
                   /\ ChildrenOf(bs, q) \subseteq children
                   /\ Cardinality(ChildrenOf(bs, q)) \in 2..3
            /\ \A c \in children : bs[c].parent \in primaries
            /\ Len(bs) = 1 + Cardinality(primaries) + Cardinality(children)
            /\ Len(bs) \in 16..29
            /\ gCalls >= 2 => Len(bs) = Len(gFirst)

\* such a tree has been returned a second time, some primary having two
\* children and some primary three
C5_Witness ==
    /\ gType = 1
    /\ gParams.generations = 2
    /\ gParams.anastomosis = 0
    /\ gCalls >= 2
    /\ \E q, r \in ChildrenOf(gBranches, 1) :
           /\ Cardinality(ChildrenOf(gBranches, q)) = 2
           /\ Cardinality(ChildrenOf(gBranches, r)) = 3

\* C6: in both generators a tree branch of depth 2 or more starts at its
\* parent's end point, one level below it, with startRadius equal to the
\* parent's endRadius; a primary (depth 1) has startRadius equal to the
\* stump's endRadius, which is trunkThickness.  Fused branches are exempt.
C6_Joints ==
    gCalls >= 1 =>
        \A k \in TreeBranches(gBranches) \ {1} :
            LET b == gBranches[k]
                p == gBranches[b.parent]
            IN  /\ b.depth >= 1
                /\ b.parent \in TreeBranches(gBranches)
                /\ b.parent < k
                /\ b.depth = 1 =>
                       /\ b.parent = 1
                       /\ b.startRadius = p.endRadius
                       /\ b.startRadius = gParams.trunkThickness
                /\ b.depth >= 2 =>
                       /\ b.start = p.end
                       /\ b.depth = p.depth + 1
                       /\ b.startRadius = p.endRadius

\* a tree with branches of depth 3 that are thinner than their parents, next
\* to fused branches
C6_Witness ==
    /\ gCalls >= 1
    /\ FusedBranches(gBranches) # {}
    /\ \E k \in TreeBranches(gBranches) :
           /\ gBranches[k].depth = 3
           /\ gBranches[k].endRadius < gBranches[k].startRadius
           /\ gBranches[k].start # gBranches[gBranches[k].parent].start

\* C7: a fused branch joins two distinct nodes i < j: it runs from the
\* position of node i to the position of node j, both its radii are the
\* smaller of the two nodes' radii and its depth is the larger of the two
\* nodes' depths (a node's position, radius and depth are the start,
\* startRadius and depth of the tree branch of its index).
C7_FusedFields ==
    gCalls >= 1 =>
        \A k \in FusedBranches(gBranches) :
            LET i == gBranches[k].pair[1]
                j == gBranches[k].pair[2]
                ni == gBranches[i]
                nj == gBranches[j]
            IN  /\ i \in TreeBranches(gBranches)
                /\ j \in TreeBranches(gBranches)
                /\ i < j
                /\ gBranches[k].start = ni.start
                /\ gBranches[k].end = nj.start
                /\ gBranches[k].startRadius = Min(ni.startRadius, nj.startRadius)
                /\ gBranches[k].endRadius = Min(ni.startRadius, nj.startRadius)
                /\ gBranches[k].depth = Max(ni.depth, nj.depth)

\* generateTreeKitaoka has fused a thinner, shallower node with a thicker,
\* deeper one, and a thicker node with a thinner one
C7_Witness ==
    /\ gType = 2
    /\ gCalls >= 1
    /\ \E k, m \in FusedBranches(gBranches) :
           LET ni == gBranches[gBranches[k].pair[1]]
               nj == gBranches[gBranches[k].pair[2]]
               mi == gBranches[gBranches[m].pair[1]]
               mj == gBranches[gBranches[m].pair[2]]
           IN  /\ ni.startRadius < nj.startRadius
               /\ ni.depth # nj.depth
               /\ mi.startRadius > mj.startRadius

\* g of the field's definition: 1 at or inside the surface, (1 - coneDist/margin)^2
\* in the band 0 < coneDist < margin, 0 from the margin on
BandFalloff(coneDist, margin) ==
    IF coneDist <= 0 THEN 1000
    ELSE IF coneDist < margin THEN Falloff(coneDist, margin)
    ELSE 0

\* influence * g(coneDist) of one branch at the world position w
BandValueAt(b, w, t, voxelSize, influence) ==
    influence * BandFalloff(ConeDist(b, w, t), LocalMargin(b, t, voxelSize))

BandValue(b, w, voxelSize, influence) ==
    BandValueAt(b, w, ProjectT(b, w), voxelSize, influence)

\* the maximum over all branches at w, 0 where no branch reaches
BandMax(branches, w, voxelSize, influence) ==
    Largest({0} \cup {BandValue(branches[k], w, voxelSize, influence) : k \in 1..Len(branches)})

\* the world position of the voxel with index idx
WorldOf(idx, resolution, voxelSize, halfSize) ==
    <<World(idx % resolution, voxelSize, halfSize),
      World((idx \div resolution) % resolution, voxelSize, halfSize),
      World(idx \div (resolution * resolution), voxelSize, halfSize)>>

\* C8: after fillDistanceField every voxel holds the maximum over all
\* branches of influence * g(coneDist), g falling to zero only at the margin
\* max(2 * radius at t, 2 voxel widths) from the surface; a voxel no branch
\* reaches holds 0.
C8_FieldIsBandMax ==
    fPc = 1 =>
        \A idx \in DOMAIN fField :
            fField[idx] = BandMax(fBranches, WorldOf(idx, fRes, fSize \div fRes, fSize \div 2),
                                  fSize \div fRes, fInfluence)

\* C9: a call of fillJunctionSpheres with blobiness <= 0 leaves every element
\* of the field as it was.
C9_NoBlobinessNoChange ==
    [][(CallFillJunctionSpheres /\ fBlob' <= 0) => fField' = fField]_vars

\* the call has returned with blobiness <= 0 for a list in which end points
\* meet, on a field that holds values
C9_Witness ==
    /\ fPc = 2
    /\ fBlob <= 0
    /\ \E k \in 1..Len(JunctionMap(fBranches, fSize \div fRes)) :
            JunctionMap(fBranches, fSize \div fRes)[k].count >= 2
    /\ \E idx \in DOMAIN fField : fField[idx] > 0

\* C10: the resolution a mesh build allocates and fills its field with is at
\* most 280, so the field has at most 280^3 elements; a request whose scaled
\* resolution is above 280 is built at 280.
C10_ResolutionCeiling ==
    mBuild # <<>> =>
        /\ mBuild.actualResolution <= 280
        /\ mBuild.actualResolution * mBuild.actualResolution * mBuild.actualResolution
               <= 280 * 280 * 280
        /\ ScaledResolution(mBuild.mcResolution, mBuild.mcSize) > 280
               => mBuild.actualResolution = 280

\* a build has run whose scaled resolution was above the ceiling
C10_Witness ==
    /\ mBuild # <<>>
    /\ ScaledResolution(mBuild.mcResolution, mBuild.mcSize) > 280
    /\ mBuild.actualResolution = 280

\* C11: a run of the mesh build effect with meshTrigger above 0 and a branch
\* list of fewer than 2 branches fills no field, runs no extractor and leaves
\* the component's solid geometry and the store's meshGeometry null, without
\* failing.  (The component's list is either empty or a whole generated tree.)
C11_FewBranchesNoBuild ==
    [][(mTrigger > 0 /\ mDeps # BuildDeps /\ Len(Branches(mRun)) < 2 /\ Commit)
           => (mBuild' = <<>> /\ mSolid' = <<>> /\ mGeometry' = <<>>)]_vars

\* the build effect last ran with meshTrigger above 0 and returned at its guard
C11_Witness ==
    /\ mDeps # <<>>
    /\ mDeps[1] > 0
    /\ mBuild = <<>>
    /\ mSolid = <<>>
    /\ mGeometry = <<>>

\* the post-processing steps of a build
PostStepNames == {"trim", "weld", "normals", "scale", "displace", "smooth", "clip"}

\* C12: a build whose extractor reports zero vertices ends with the mesh null
\* (solid geometry and meshGeometry) and runs none of the post-processing
\* steps: no trim, weld, displacement, smoothing or ground clip.
C12_EmptyExtraction ==
    (mBuild # <<>> /\ mBuild.mcCount = 0) =>
        /\ mSolid = <<>>
        /\ mGeometry = <<>>
        /\ \A k \in 1..Len(mBuild.steps) : mBuild.steps[k] \notin PostStepNames

\* a build has run up to the extractor, which reported zero vertices
C12_Witness ==
    /\ mBuild # <<>>
    /\ mBuild.mcCount = 0
    /\ mBuild.steps = ExtractSteps
    /\ mGeometry = <<>>

\* C13: for each parameter of each generator, the call with the parameter
\* absent returns the same branch list as the call with the parameter set to
\* its documented default (DEFAULT_V1_PARAMS, DEFAULT_V2_PARAMS), the other
\* parameters being equal.
C13_DocumentedDefaults == gCalls = 2 => gBranches = gFirst

\* C14: when the smoothing iteration count (the smoothing setting rounded to
\* the nearest whole number) is 0, the smoothing step changes no vertex
\* position.
C14_NoIterationsNoChange ==
    (qStep = "smooth" /\ qConfig.smoothing < 500) => qPositions = qBefore

\* the smoothing step has run with a setting that rounds to 0
C14_Witness ==
    /\ qStep = "smooth"
    /\ qConfig.smoothing < 500
    /\ qPositions = qBefore
    /\ qIndex # <<>>

\* the vertex p is below the base height and horizontally nearer to the
\* stump's footprint than radius
InFootprint(p, center, radius) ==
    /\ p[2] < 0 - center[2]
    /\ (p[1] + center[1]) * (p[1] + center[1]) + (p[3] + center[3]) * (p[3] + center[3])
           < radius * radius

\* C15: the ground clip sets y to the stump's base height for exactly the
\* vertices whose y is below the base height and whose horizontal (x, z)
\* distance from the stump's footprint is below 3 times trunkThickness; every
\* other vertex, and x and z of every vertex, are unchanged.
C15_GroundClip ==
    qStep = "clip" =>
        \A i \in DOMAIN qBefore :
            qPositions[i] =
                IF InFootprint(qBefore[i], qConfig.center, 3 * qConfig.trunkThickness)
                THEN <<qBefore[i][1], 0 - qConfig.center[2], qBefore[i][3]>>
                ELSE qBefore[i]

\* the clip has raised one vertex and left another one below the base height
C15_Witness ==
    /\ qStep = "clip"
    /\ \E i \in DOMAIN qBefore :
           qPositions[i] # qBefore[i] /\ qPositions[i][2] = 0 - qConfig.center[2]
    /\ \E i \in DOMAIN qBefore :
           qPositions[i] = qBefore[i] /\ qBefore[i][2] < 0 - qConfig.center[2]

\* C20: displaceVertices moves each vertex along its normal by a scalar of
\* absolute value at most 1.5 times voxelWorldSize, for every noiseAmount >= 0,
\* every value of the noise and every position.
C20_DisplacementBound ==
    qStep = "displace" =>
        \A i \in DOMAIN qBefore :
            \E d \in (0 - (3 * qConfig.voxelWorldSize) \div 2)..((3 * qConfig.voxelWorldSize) \div 2) :
                qPositions[i] = VAdd(qBefore[i], VScale(qNormals[i], d))

\* a vertex has been moved by the full 1.5 voxels, the noise asking for more
C20_Witness ==
    /\ qStep = "displace"
    /\ qConfig.noiseAmount = 5000
    /\ \E i \in DOMAIN qBefore :
           /\ qPositions[i] # qBefore[i]
           /\ qPositions[i]
                  = VAdd(qBefore[i], VScale(qNormals[i], (3 * qConfig.voxelWorldSize) \div 2))

\* C16: in generateTreeKitaoka, with the diameter exponent n in [2, 3.5], the
\* endRadius of a child is its parent's endRadius times the 1/n-th power of
\* the child's flow fraction, the endRadius of a primary is trunkThickness
\* times the 1/n-th power of its normalized flow fraction, and no child is
\* thicker than its parent.
C16_MurrayRadius ==
    (gType = 2 /\ gCalls >= 1 /\ gParams.diameterExponent \in 20..35) =>
        \A c \in TreeBranches(gBranches) \ {1} :
            LET parent == gBranches[gBranches[c].parent]
                base == IF gBranches[c].parent = 1 THEN gParams.trunkThickness
                        ELSE parent.endRadius
                f == (1000 * gBranches[c].num) \div gBranches[c].den
            IN  /\ gBranches[c].endRadius = Mil(base, Root(f, gParams.diameterExponent))
                /\ gBranches[c].endRadius <= parent.endRadius
                /\ gBranches[c].startRadius = parent.endRadius

\* generateTreeKitaoka has returned a tree with a primary thinner than the
\* stump and a child two levels down thinner than its parent
C16_Witness ==
    /\ gType = 2
    /\ gCalls >= 1
    /\ \E c \in TreeBranches(gBranches) :
           /\ gBranches[c].parent = 1
           /\ gBranches[c].endRadius < gParams.trunkThickness
           /\ gBranches[c].endRadius > 0
    /\ \E c \in TreeBranches(gBranches) :
           /\ gBranches[c].depth >= 2
           /\ gBranches[c].endRadius < gBranches[gBranches[c].parent].endRadius
           /\ gBranches[c].endRadius > 0

\* C17: both generators terminate with a finite list: recurse of the
\* heuristic generator goes no deeper than depth = generations, recurse of the
\* flow-conserving generator no deeper than the cap of 20 even while the flow
\* stays at or above the threshold, and the anastomosis pass examines each
\* pair of nodes at most once before it ends.
C17_Terminates ==
    /\ <>(wPc = "done")
    /\ [](wPc \in {"recurse", "leaf"} =>
             wDepth <= (IF wGen = 1 THEN wLimit ELSE 20))
    /\ [](\A m, n \in 1..Len(wExamined) :
             /\ wExamined[m][1] < wExamined[m][2]
             /\ wExamined[m][2] < wNodes
             /\ m # n => wExamined[m] # wExamined[n])

\* a path of the flow-conserving generator has ended at the depth cap with its
\* flow still at or above the threshold
C17_Witness ==
    /\ wGen = 2
    /\ wPc = "leaf"
    /\ wDepth = 20
    /\ wFlow >= wLimit

\* C18: a resetSimulation leaves the store's meshGeometry null and meshTrigger
\* 0; whatever setParam, setCoralType and setRenderParam actions follow, the
\* mesh stays null while meshTrigger is 0, that is until triggerMesh; in every
\* reachable state a mesh in the store means meshTrigger > 0.
C18_NoMeshWithoutTrigger ==
    /\ [](mGeometry # <<>> => mTrigger > 0)
    /\ [][mReset' # mReset => (mGeometry' = <<>> /\ mTrigger' = 0)]_vars

\* the component has committed after a resetSimulation with a skeleton to
\* mesh, its build effect has run with meshTrigger 0, and there is no mesh
C18_Witness ==
    /\ mReset > 0
    /\ mRan = mReset
    /\ ~mPending
    /\ mTrigger = 0
    /\ mDeps = BuildDeps
    /\ Len(Branches(mRun)) > 0
    /\ mGeometry = <<>>

\* influence * falloff of a sphere at the world position w: the distance to
\* its surface over the margin max(2 * radius, 2 voxel widths)
SphereContribution(center, radius, w, voxelSize, influence) ==
    LET surfaceDist == ISqrt(VDistSq(w, center)) - radius
        margin == Max(radius * 2, voxelSize * 2)
    IN  IF surfaceDist < margin THEN influence * Falloff(surfaceDist, margin) ELSE 0

\* branch b of no length is handled at the voxel idx as the sphere of radius
\* startRadius around b.start: t is 0 and what the loops write is the
\* sphere's value
SphereAt(b, idx, resolution, voxelSize, halfSize, influence) ==
    LET w == WorldOf(idx, resolution, voxelSize, halfSize)
        box == IndexBox(b.start, b.end, BoxMargin(b, voxelSize), resolution, voxelSize, halfSize)
        written == FillVoxel(0, b, box, idx % resolution, (idx \div resolution) % resolution,
                             idx \div (resolution * resolution), voxelSize, halfSize, influence)
    IN  /\ ProjectT(b, w) = 0
        /\ written = IF Visited(box, idx % resolution, (idx \div resolution) % resolution,
                                 idx \div (resolution * resolution))
                      THEN SphereContribution(b.start, b.startRadius, w, voxelSize, influence)
                      ELSE 0
        /\ fField[idx] >= written
        /\ Len(fBranches) = 1 => fField[idx] = written

Orderings(n) == {p \in [1..n -> 1..n] : \A i, j \in 1..n : i # j => p[i] # p[j]}

\* the list s in the order p
Reordered(s, p) == [k \in 1..Len(s) |-> s[p[k]]]

\* C21: fillDistanceField writes the same field for every permutation of the
\* branch list: the per-voxel maximum does not depend on the order in which
\* the branches are rasterized.  fField is what the call has written for the
\* list as passed; every other order of the list is compared with it.
C21_OrderIndependent ==
    fPc = 1 =>
        \A branches \in {Reordered(fBranches, p) : p \in Orderings(Len(fBranches))} \ {fBranches} :
            FillDistanceField(branches, fField, fRes, fSize, fInfluence) = fField

\* the call has returned for a list of two different branches that both
\* reach one voxel, with different values
C21_Witness ==
    /\ fPc = 1
    /\ Len(fBranches) >= 2
    /\ fBranches[1] # fBranches[2]
    /\ LET one == FillDistanceField(<<fBranches[1]>>, fField, fRes, fSize, fInfluence)
           two == FillDistanceField(<<fBranches[2]>>, fField, fRes, fSize, fInfluence)
       IN  \E idx \in DOMAIN fField : one[idx] > 0 /\ two[idx] > 0 /\ one[idx] # two[idx]

\* the loops over box write within the grid: ix, iy and iz are in
\* 0 .. resolution - 1 and idx is an index of the array
WithinGrid(box, resolution) ==
    /\ LoopCoordinates(box) \subseteq 0..(resolution - 1)
    /\ LoopIndices(box, resolution) \subseteq 0..(resolution * resolution * resolution - 1)

\* the margin of the box of branch b reaches beyond a face of the cube
CrossesFace(b, voxelSize, halfSize) ==
    \E c \in 1..3 :
        \/ Min(b.start[c], b.end[c]) - BoxMargin(b, voxelSize) < 0 - halfSize
        \/ Max(b.start[c], b.end[c]) + BoxMargin(b, voxelSize) > halfSize

\* C22: every write of fillDistanceField and of fillJunctionSpheres is to the
\* index ix + iy * resolution + iz * resolution^2 with ix, iy and iz in
\* 0 .. resolution - 1, an index of the array, also for the branches and
\* junctions that lie partly or wholly outside the grid cube.
C22_WritesWithinGrid ==
    /\ fPc >= 1 =>
          \A k \in 1..Len(fBranches) :
              WithinGrid(BranchBox(fBranches[k], fRes, fSize \div fRes, fSize \div 2), fRes)
    /\ (fPc = 2 /\ fBlob > 0) =>
          \A k \in 1..Len(JunctionMap(fBranches, fSize \div fRes)) :
              LET jn == JunctionMap(fBranches, fSize \div fRes)[k]
              IN  jn.count >= 2 =>
                    WithinGrid(JunctionBox(jn, SphereRadius(jn, fBlob), fRes, fSize \div fRes,
                                           fSize \div 2), fRes)
    /\ DOMAIN fField = 0..(fRes * fRes * fRes - 1)

\* both calls have returned for two branches that cross a face of the cube and
\* meet in a junction outside it: the loops of both functions are cut at the
\* face and have written
C22_Witness ==
    /\ fPc = 2
    /\ fBlob > 0
    /\ Len(fBranches) = 2
    /\ fBranches[1] # fBranches[2]
    /\ SnapKey(fBranches[1].start, (fSize \div fRes) \div 2)
           = SnapKey(fBranches[2].start, (fSize \div fRes) \div 2)
    /\ \E c \in 1..3 : fBranches[1].start[c] < 0 - fSize \div 2
    /\ \A k \in 1..2 :
        /\ CrossesFace(fBranches[k], fSize \div fRes, fSize \div 2)
        /\ LoopIndices(BranchBox(fBranches[k], fRes, fSize \div fRes, fSize \div 2), fRes) # {}
    /\ \E idx \in DOMAIN fField : fField[idx] > fInfluence * 1000

\* the order of the post-processing
StepOrder == <<"trim", "weld", "displace", "smooth", "clip">>

\* the place of a step in StepOrder, 0 for any other step
Rank(step) == IF \E r \in 1..Len(StepOrder) : StepOrder[r] = step
              THEN CHOOSE r \in 1..Len(StepOrder) : StepOrder[r] = step
              ELSE 0

\* C23: in a build in which the extractor emits vertices the post-processing
\* steps run in the order trim, weld, displace, smooth, clip, each at most
\* once and none before a step that precedes it in this order; trim, weld and
\* clip run in every such build, and a displacement uses normals computed
\* after the weld.
C23_StepOrder ==
    (mBuild # <<>> /\ mBuild.mcCount > 0) =>
        /\ \A j, k \in 1..Len(mBuild.steps) :
              (j < k /\ Rank(mBuild.steps[j]) > 0 /\ Rank(mBuild.steps[k]) > 0) =>
                  Rank(mBuild.steps[j]) < Rank(mBuild.steps[k])
        /\ \A step \in {"trim", "weld", "clip"} :
              \E k \in 1..Len(mBuild.steps) : mBuild.steps[k] = step
        /\ \A k \in 1..Len(mBuild.steps) :
              mBuild.steps[k] = "displace" =>
                  \E j, n \in 1..(k - 1) :
                      j < n /\ mBuild.steps[j] = "weld" /\ mBuild.steps[n] = "normals"

\* a build with vertices has run all five steps
C23_Witness ==
    /\ mBuild # <<>>
    /\ mBuild.mcCount > 0
    /\ \A r \in 1..Len(StepOrder) : \E k \in 1..Len(mBuild.steps) : mBuild.steps[k] = StepOrder[r]
    /\ mGeometry # <<>>

\* the one-ring of vertex i: the vertices that share a triangle with it, each
\* once
Ring(index, i) ==
    {index[t][c] : t \in {u \in 1..Len(index) : \E d \in 1..3 : index[u][d] = i}, c \in 1..3} \ {i}

RECURSIVE RingSum(_, _)
\* the sum of the positions of the vertices in ring
RingSum(positions, ring) ==
    IF ring = {} THEN <<0, 0, 0>>
    ELSE LET n == CHOOSE m \in ring : TRUE
         IN  VAdd(positions[n], RingSum(positions, ring \ {n}))

\* 0.5 * old + 0.5 * (average over the one-ring), all vertices from the
\* positions before the iteration; a vertex with no neighbours kept
RingIteration(positions, index) ==
    [i \in DOMAIN positions |->
        IF Ring(index, i) = {} THEN positions[i]
        ELSE Blend(positions[i], RingSum(positions, Ring(index, i)), Cardinality(Ring(index, i)))]

RECURSIVE RingSmoothed(_, _, _)
RingSmoothed(positions, index, k) ==
    IF k <= 0 THEN positions ELSE RingSmoothed(RingIteration(positions, index), index, k - 1)

\* C24: with k >= 1 smoothing iterations on an indexed mesh each iteration sets
\* every vertex that has neighbours to 0.5 * (its position before the
\* iteration) + 0.5 * (the average of the positions before the iteration of
\* its one-ring neighbours, each neighbouring vertex counted once), all
\* vertices at once; a vertex with no neighbours keeps its position.
C24_RingAverage ==
    (qStep = "smooth" /\ SmoothIters(qConfig.smoothing) >= 1) =>
        qPositions = RingSmoothed(qBefore, qIndex, SmoothIters(qConfig.smoothing))

\* the end points of the branches: <<k, "start">> and <<k, "end">>
EndPoints(branches) == (1..Len(branches)) \X {"start", "end"}

PointOf(branches, pt) ==
    IF pt[2] = "start" THEN branches[pt[1]].start ELSE branches[pt[1]].end

\* the cell of half a voxel's width an end point falls in
CellOf(branches, pt, voxelSize) == SnapKey(PointOf(branches, pt), voxelSize \div 2)

\* the cells that hold two end points or more
JunctionCells(branches, voxelSize) ==
    {CellOf(branches, pt, voxelSize) : pt \in
        {q \in EndPoints(branches) :
            \E r \in EndPoints(branches) \ {q} :
                CellOf(branches, r, voxelSize) = CellOf(branches, q, voxelSize)}}

\* the cells of the entries of the junction map that have a count of 2 or more
CountedCells(branches, voxelSize) ==
    {JunctionMap(branches, voxelSize)[k].key :
        k \in {n \in 1..Len(JunctionMap(branches, voxelSize)) :
                    JunctionMap(branches, voxelSize)[n].count >= 2}}

\* an end point of the branches lies in the grid cube and in a junction cell
JunctionInCube(branches, voxelSize, halfSize) ==
    \E pt \in EndPoints(branches) :
        /\ CellOf(branches, pt, voxelSize) \in JunctionCells(branches, voxelSize)
        /\ \A c \in 1..3 : PointOf(branches, pt)[c] > 0 - halfSize
                              /\ PointOf(branches, pt)[c] < halfSize

\* C25: fillJunctionSpheres with blobiness > 0 adds a sphere for a cell of half
\* a voxel's width exactly when two or more end points of branches (starts or
\* ends, of all branches) fall in it: a list whose end points all lie in
\* cells of their own leaves the field as it was, a cell with two end points
\* inside the cube raises it, and no value of the field is lowered.
C25_JunctionCells ==
    [][(fPc = 1 /\ fPc' = 2 /\ fBlob' > 0) =>
          /\ CountedCells(fBranches, fSize \div fRes) = JunctionCells(fBranches, fSize \div fRes)
          /\ JunctionCells(fBranches, fSize \div fRes) = {} => fField' = fField
          /\ JunctionInCube(fBranches, fSize \div fRes, fSize \div 2) => fField' # fField
          /\ \A idx \in DOMAIN fField : fField'[idx] >= fField[idx]]_vars

\* the call has returned with blobiness > 0 for two branches whose start points
\* differ and fall in one cell, and whose other ends are free tips
C25_Witness ==
    /\ fPc = 2
    /\ fBlob > 0
    /\ Len(fBranches) = 2
    /\ fBranches[1].start # fBranches[2].start
    /\ Cardinality(JunctionCells(fBranches, fSize \div fRes)) = 1
    /\ Cardinality({CellOf(fBranches, pt, fSize \div fRes) : pt \in EndPoints(fBranches)}) = 3
    /\ \E idx \in DOMAIN fField : fField[idx] > fInfluence * 1000

\* what the call returns with the anastomosis pass switched off: the tree,
\* and the closure state the pass starts from
BeforePass ==
    IF gType = 1 THEN GenerateTreeClassic([gParams EXCEPT !.anastomosis = 0], <<>>)
    ELSE GenerateTreeKitaoka([gParams EXCEPT !.anastomosis = 0], <<>>)

\* fusionDist = primaryLen * 0.4
FusionDist ==
    IF gType = 1 THEN (((gParams.branchLength * 8) \div 10) * 4) \div 10
    ELSE (((Mil(gParams.trunkThickness, gParams.branchLength) * 25) \div 10) * 4) \div 10

\* the depth the pass divides avgDepth by
DepthNorm(tree) == IF gType = 1 THEN gParams.generations ELSE MaxDepthOf(tree, 1)

\* the pairs <<i, j>> of the fused branches of the list returned
FusedPairs == {gBranches[k].pair : k \in FusedBranches(gBranches)}

\* the nodes fused when the outer loop comes to i: those of the pairs of a
\* smaller first node
FusedBy(i) == UNION {{pr[1], pr[2]} : pr \in {q \in FusedPairs : q[1] < i}}

\* the pairs a draw is made for: i and j unfused when the loop comes to i
\* (fusedBy[i] holds the nodes fused by then), their distance within the
\* band, and j not behind the node i is fused with
Candidates(nodes, fusedBy, pairs) ==
    {pr \in (1..Len(nodes)) \X (1..Len(nodes)) :
        /\ pr[1] < pr[2]
        /\ pr[1] \notin fusedBy[pr[1]]
        /\ pr[2] \notin fusedBy[pr[1]]
        /\ ~OutOfBand(nodes[pr[1]].pos, nodes[pr[2]].pos, FusionDist)
        /\ \A q \in pairs : q[1] = pr[1] => pr[2] <= q[2]}

\* the candidates of the list returned, for the tree it was made from
CandidatesOf(tree) ==
    Candidates(Nodes(tree), Tabulated([i \in 1..Len(tree) |-> FusedBy(i)]), FusedPairs)

\* pr comes before qr in the order of the two loops
ScannedBefore(pr, qr) == pr[1] < qr[1] \/ (pr[1] = qr[1] /\ pr[2] < qr[2])

\* the place of the candidate pr in the order of the two loops
PlaceOf(pr, cands) == 1 + Cardinality({qr \in cands : ScannedBefore(qr, pr)})

RECURSIVE DrawsByHalves(_, _)
\* Draws(s, n), the sequence made by halves
DrawsByHalves(s, n) ==
    After(s,
          IF n <= 4 THEN Draws(s, n)
          ELSE LET first == DrawsByHalves(s, n \div 2)
               IN  After(first, first \o DrawsByHalves(first[Len(first)].s, n - n \div 2)))

\* the pass as the claim describes it, for the tree, the closure state before
\* the pass, the candidates and the draws that follow that state
ScanAsClaimed(tree, rng, cands, draws, pairs, depthNorm) ==
    /\ BranchList(SubSeq(gBranches, 1, Len(tree))) = BranchList(tree)
    /\ pairs \subseteq cands
    /\ gRng = IF cands = {} THEN rng ELSE draws[Cardinality(cands)].s
    /\ \A pr \in cands :
          (RandMil(draws[PlaceOf(pr, cands)].u)
              < FuseChance(gParams.anastomosis, tree[pr[1]].depth, tree[pr[2]].depth, depthNorm))
          <=> pr \in pairs
    /\ \A k, m \in FusedBranches(gBranches) :
          k < m => gBranches[k].pair[1] < gBranches[m].pair[1]

\* the pass as the claim describes it, from what the call returns with the
\* pass switched off
ScanFrom(before, cands) ==
    After(cands,
          ScanAsClaimed(before.branches, before.rng, cands,
                        DrawsByHalves(before.rng, Cardinality(cands)), Tabulated(FusedPairs),
                        DepthNorm(before.branches)))

\* C26: the anastomosis pass visits the nodes i in ascending order and, for
\* each unfused i, the candidates j = i + 1, i + 2, ... in ascending order; it
\* makes one draw for each candidate that is unfused and within the distance
\* band and for no other, fuses i with the first such candidate whose draw is
\* below the pair's chance, and looks at no further candidate for that i.
C26_ScanOrder ==
    gCalls >= 1 =>
        LET before == BeforePass
        IN  After(before, ScanFrom(before, CandidatesOf(before.branches)))

\* a call has returned in whose pass a node was fused after a draw for an
\* earlier candidate had failed, with candidates left behind the fused one,
\* and a later node was fused as well
C26_Witness ==
    /\ gCalls >= 1
    /\ gParams.anastomosis > 0
    /\ \E pr \in FusedPairs :
        /\ \E qr \in CandidatesOf(BeforePass.branches) : qr[1] = pr[1] /\ qr[2] < pr[2]
        /\ \E j \in (pr[2] + 1)..Len(BeforePass.branches) :
               /\ j \notin FusedBy(pr[1])
               /\ ~OutOfBand(BeforePass.branches[pr[1]].start, BeforePass.branches[j].start,
                              FusionDist)
        /\ \E qr \in FusedPairs : qr[1] > pr[1]

\* C27: in the flow-conserving generator a branch receives children exactly
\* when its flow is at least the threshold 2^(-density) and its depth is
\* less than 20; a branch whose flow is below the threshold is still emitted,
\* as a leaf, and no branch is deeper than 20.  (A call of recurse has pushed
\* its branch when it comes to the test; wLimit is the threshold.)
C27_ChildrenByFlow ==
    /\ [][(wGen = 2 /\ wPc = "recurse") =>
            ((wPc' = "recurse" /\ wDepth' = wDepth + 1)
                <=> (wFlow >= wLimit /\ wDepth < 20))]_vars
    /\ [][(wGen = 2 /\ wPc = "recurse" /\ wFlow < wLimit) =>
            (wPc' = "leaf" /\ wDepth' = wDepth /\ wFlow' = wFlow)]_vars
    /\ [](wGen = 2 => wDepth <= 20)
    /\ [](wGen = 2 => wLimit \in {1000000 \div Pow2(density) : density \in WalkDensities})

\* a branch below the depth cap whose ancestors had children has come out a
\* leaf, its flow below the threshold
C27_Witness ==
    /\ wGen = 2
    /\ wPc = "leaf"
    /\ wDepth > 2
    /\ wDepth < 20
    /\ wFlow < wLimit

\* D: the largest depth of a branch of the tree, at least 1
ObservedDepth(bs) ==
    CHOOSE d \in {1} \cup {bs[k].depth : k \in TreeBranches(bs)} :
        \A e \in {1} \cup {bs[k].depth : k \in TreeBranches(bs)} : d >= e

\* anastomosis * (1 - avgDepth / D)^2 for the nodes i and j, in thousandths
ChanceBy(bs, anastomosis, i, j, D) == FuseChance(anastomosis, bs[i].depth, bs[j].depth, D)

\* the chances of the pairs of nodes lie in [0, anastomosis], and the pairs
\* fused had a chance above 0 and were not both at depth D
ChancesBy(bs, anastomosis, D) ==
    /\ \A di, dj \in {bs[k].depth : k \in TreeBranches(bs)} :
          FuseChance(anastomosis, di, dj, D) \in 0..anastomosis
    /\ \A k \in FusedBranches(bs) :
          /\ ChanceBy(bs, anastomosis, bs[k].pair[1], bs[k].pair[2], D) > 0
          /\ ~(bs[bs[k].pair[1]].depth = D /\ bs[bs[k].pair[2]].depth = D)

LargestValue(field) ==
    CHOOSE v \in {field[idx] : idx \in DOMAIN field} :
        \A idx \in DOMAIN field : v >= field[idx]

\* C29: with blobiness at or below 0 and a voxel inside a branch, for every
\* position of the thickness slider (0 to 100 in steps of 1) the isolation
\* 150 - 1.4 * thickness handed to the extractor is at most the largest value
\* of the field, which is at most the influence.
C29_IsolationWithinField ==
    (fPc = 2 /\ fBlob <= 0 /\ LargestValue(fField) = fInfluence * 1000) =>
        \A mcThickness \in 0..100 :
            /\ Isolation(mcThickness) <= fInfluence * 1000
            /\ Isolation(mcThickness) <= LargestValue(fField)

\* C30: in every build that reaches the ground clip, whatever store actions
\* came before it, the clip radius is 3 times the trunkThickness of the run
\* that generated the branch list being meshed.
C30_ClipRadiusOfRun ==
    [][(mBuild' # mBuild /\ mBuild' # <<>> /\ mBuild'.mcCount > 0) =>
            mBuild'.clipRadius = 3 * mRun.params.trunkThickness]_vars

====
